---- MODULE Spec2Model ----
(***************************************************************************)
(* The replicated-text engine of the collaborative editor: SimpleYDoc      *)
(* (insert, delete, undo, redo, applyRemoteOps, getText) and the           *)
(* SimulatedConnection that links the editors of one window.               *)
(*                                                                         *)
(* A character is a JavaScript object.  Its id, value, clientId and clock  *)
(* never change after insert() created it, so the model names the object   *)
(* by those fields plus `obj`, which tells apart two objects that carry    *)
(* the same id (the object insert() created is obj 0; a replica fed its    *)
(* own copy of an operation holds another obj).  The one mutable field,    *)
(* char.deleted, lives in the variable `deleted`, indexed by object.       *)
(* insert() puts the object itself into the emitted operation (line 46),   *)
(* SimulatedConnection hands the message object to the receiver (line 192) *)
(* and applyRemoteOps pushes op.char itself (line 123): editors linked by  *)
(* a SimulatedConnection therefore hold the same object, and one flag.     *)
(* The never-read field char.position (line 34) and the change listeners   *)
(* (lines 137-144, they only refresh the displayed text) are left out.     *)
(* startRobotTyping (lines 328-351) is insert() and send() like typing.    *)
(*                                                                         *)
(* The second part is server.js: the registry of DocumentManager records,  *)
(* the WebSocket sessions with their heartbeat, the REST requests and the  *)
(* files of the persistence directory.  The editors and the server share   *)
(* no state; each specification moves one of them and leaves the other in  *)
(* its initial state.                                                      *)
(***************************************************************************)
EXTENDS Integers, Sequences, FiniteSets, Bags, TLC

VARIABLES
    content,        \* content[c]: SimpleYDoc.content, the array of character objects
    deleted,        \* deleted[ch]: the field char.deleted of character object ch
    vectorClock,    \* vectorClock[c][o]: SimpleYDoc.vectorClock (0 = no entry)
    undoStack,      \* undoStack[c]: SimpleYDoc.undoStack
    redoStack,      \* redoStack[c]: SimpleYDoc.redoStack
    connected,      \* connected[c]: SimulatedConnection.connected
    messageQueue,   \* messageQueue[c]: SimulatedConnection.messageQueue
    inflight,       \* bag of pending setTimeout deliveries [to, message]
    edits,          \* how many local edits were typed (bounds the model only)
    undoRedoSteps,  \* how many times Undo or Redo was clicked (bounds the model only)
    received,       \* received[r]: the operations replica r was fed, in order (MergeSpec)
    documents,      \* server.js `documents`: documents[d] = the DocumentManager registered for d (0 = none)
    managers,       \* every DocumentManager object constructed so far, by number
    files,          \* files[d]: the canonical file <d>.yjs in the persistence directory
    snapshotFiles,  \* the files <d>.snapshot.<timestamp>.yjs, as [docId, ts]
    pending,        \* bag of file-system calls that were started and have not completed
    sockets,        \* sockets[s]: the WebSocket of session s (readyState, currentDoc, isAlive)
    sent,           \* sent[s]: the messages the step just taken sent to session s, in order
    delivered,      \* delivered[s]: the operations of all sync and update messages sent to s
    lastWrite,      \* lastWrite[d]: the state the most recently started write of <d>.yjs carries
    responded,      \* the docIds whose DELETE request was answered (cleared by a later join or create)
    timeNow,        \* Date.now(), advanced by the snapshot timer
    requests,       \* how many messages and REST requests were handled (bounds the model only)
    response,       \* the HTTP response the step just taken sent (status 0 = none)
    logged,         \* what the step just taken wrote to the console about a frame or payload it rejected
    process         \* the server process: "running", "saving" (SIGTERM awaits the writes),
                    \* "closing" (server.close() called, force timer armed), "exit0", "exit1"

serverVars == <<documents, managers, files, snapshotFiles, pending, sockets, sent,
                delivered, lastWrite, responded, timeNow, requests, response, logged, process>>

editorVars == <<content, deleted, vectorClock, undoStack, redoStack,
                connected, messageQueue, inflight, edits, undoRedoSteps, received>>

vars == <<editorVars, serverVars>>

(***************************************************************************)
(* Bounds of the model.                                                    *)
(***************************************************************************)
MaxEdits == 2         \* local edits (typed or deleted text), all editors together
MaxUndoRedo == 2      \* clicks on Undo and Redo, all editors together

\* The WebSocket sessions of the server and the documents they name.
Sessions == {"s", "t"}
DocIds == {"d1", "d2"}

\* A docId a client may choose as well: it begins with "d1.snapshot.", so the
\* canonical file of that document is named d1.snapshot.0.yjs.
NestedDocId == "d1.snapshot.0"
AllDocIds == DocIds \cup {NestedDocId}

\* `${docId2}...`.startsWith(`${docId}.snapshot.`) for two different docIds.
StartsWithSnapshotPrefix(docId2, docId) == docId2 = NestedDocId /\ docId = "d1"

\* A file that does not exist, and a file holding an encoded state.
NoFile == [exists |-> FALSE, data |-> {}]
FileOf(data) == [exists |-> TRUE, data |-> data]

\* No HTTP response, and the states of a process that has exited.
NoResponse == [status |-> 0, error |-> "", docId |-> "", clients |-> 0, textLength |-> 0]
Exited == {"exit0", "exit1"}

\* A session that has not connected yet.
NoSocket ==
    [readyState |-> "NONE", currentDoc |-> "", isAlive |-> FALSE, closedBy |-> "",
     fileAtJoin |-> {}]

\* server.js after start-up: no record, no connection, an empty persistence
\* directory (lines 23, 34).
ServerInit ==
    /\ documents = [d \in AllDocIds |-> 0]
    /\ managers = <<>>
    /\ files = [d \in AllDocIds |-> NoFile]
    /\ snapshotFiles = {}
    /\ pending = EmptyBag
    /\ sockets = [s \in Sessions |-> NoSocket]
    /\ sent = [s \in Sessions |-> <<>>]
    /\ delivered = [s \in Sessions |-> {}]
    /\ lastWrite = [d \in AllDocIds |-> NoFile]
    /\ responded = {}
    /\ timeNow = 0
    /\ requests = 0
    /\ response = NoResponse
    /\ logged = <<>>
    /\ process = "running"

\* The editors mounted in the window; each has its own clientId.
Clients == {"a", "b"}

\* String.prototype.localeCompare on the client ids, as a rank.
ClientRank(c) == IF c = "a" THEN 1 ELSE 2

\* The text one edit inserts (shorter texts come about by deleting).
Texts == {<<"x", "y">>}

(***************************************************************************)
(* SimpleYDoc                                                              *)
(***************************************************************************)
\* content.filter(char => !char.deleted)
Visible(cont, heap) == SelectSeq(cont, LAMBDA ch : ~heap[ch])

\* getText(): the values of the characters that are not deleted, in store order.
GetText(cont, heap) ==
    LET vis == Visible(cont, heap) IN [i \in 1..Len(vis) |-> vis[i].value]

\* The scan without its break: every character lands behind the visible ones.
RECURSIVE ScanInsertIndexNoBreak(_, _, _, _, _)
ScanInsertIndexNoBreak(cont, heap, j, insertIndex, target) ==
    IF j >= Len(cont) THEN insertIndex
    ELSE IF ~heap[cont[j + 1]]
         THEN ScanInsertIndexNoBreak(cont, heap, j + 1, insertIndex + 1, target)
         ELSE ScanInsertIndexNoBreak(cont, heap, j + 1, insertIndex, target)

\* The scan of insert(): counts visible characters until the target position
\* is met; the result is the COUNT of visible characters passed.
RECURSIVE ScanInsertIndex(_, _, _, _, _)
ScanInsertIndex(cont, heap, j, insertIndex, target) ==
    IF j >= Len(cont) THEN insertIndex
    ELSE IF ~heap[cont[j + 1]]
         THEN IF insertIndex = target THEN insertIndex
              ELSE ScanInsertIndex(cont, heap, j + 1, insertIndex + 1, target)
         ELSE ScanInsertIndex(cont, heap, j + 1, insertIndex, target)

\* Array.prototype.splice(index, 0, x), index counted from 0
Splice(s, index, x) ==
    LET k == IF index > Len(s) THEN Len(s) ELSE index
    IN SubSeq(s, 1, k) \o <<x>> \o SubSeq(s, k + 1, Len(s))

InsertEntry(text, position) ==
    [type |-> "insert", text |-> text, position |-> position,
     count |-> Len(text), chars |-> <<>>, isRedo |-> FALSE]

DeleteEntry(position, chars) ==
    [type |-> "delete", text |-> <<>>, position |-> position,
     count |-> 0, chars |-> chars, isRedo |-> FALSE]

RECURSIVE InsertLoopStaleClock(_, _, _, _, _, _, _)
InsertLoopStaleClock(doc, heap, position, text, origin, i, ops) ==
    IF i >= Len(text) THEN [doc |-> doc, heap |-> heap, ops |-> ops]
    ELSE LET clock == doc.vectorClock[doc.clientId] + 1
             char == [clientId |-> doc.clientId, clock |-> clock,
                      value |-> text[i + 1], obj |-> 0]
             insertIndex == ScanInsertIndex(doc.content, heap, 0, 0, position + i)
             doc2 == [doc EXCEPT !.content = Splice(@, insertIndex, char)]
         IN InsertLoopStaleClock(doc2, (char :> FALSE) @@ heap, position, text, origin,
                                 i + 1,
                                 Append(ops, [type |-> "insert", char |-> char,
                                              origin |-> origin]))

\* The for loop of insert(), from index i of text on.
RECURSIVE InsertLoop(_, _, _, _, _, _, _)
InsertLoop(doc, heap, position, text, origin, i, ops) ==
    IF i >= Len(text) THEN [doc |-> doc, heap |-> heap, ops |-> ops]
    ELSE LET clock == doc.vectorClock[doc.clientId] + 1
             char == [clientId |-> doc.clientId, clock |-> clock,
                      value |-> text[i + 1], obj |-> 0]
             insertIndex == ScanInsertIndex(doc.content, heap, 0, 0, position + i)
             doc2 == [doc EXCEPT !.vectorClock[doc.clientId] = clock,
                                 !.content = Splice(@, insertIndex, char)]
         IN InsertLoop(doc2, (char :> FALSE) @@ heap, position, text, origin, i + 1,
                       Append(ops, [type |-> "insert", char |-> char, origin |-> origin]))

InsertAlwaysLocal(doc, heap, position, text, origin) ==
    LET r == InsertLoop(doc, heap, position, text, origin, 0, <<>>)
    IN [r EXCEPT !.doc.undoStack = Append(@, InsertEntry(text, position)),
                 !.doc.redoStack = <<>>]

\* insert(position, text, origin)
Insert(doc, heap, position, text, origin) ==
    LET r == InsertLoop(doc, heap, position, text, origin, 0, <<>>)
    IN IF origin = "local"
       THEN [r EXCEPT !.doc.undoStack = Append(@, InsertEntry(text, position)),
                      !.doc.redoStack = <<>>]
       ELSE r

\* The loop of delete() with currentPos > position for currentPos >= position.
RECURSIVE DeleteLoopOffByOne(_, _, _, _, _, _, _, _, _)
DeleteLoopOffByOne(cont, heap, position, length, origin, i, nDeleted, currentPos, ops) ==
    IF ~(i < Len(cont) /\ nDeleted < length) THEN [heap |-> heap, ops |-> ops]
    ELSE LET ch == cont[i + 1] IN
         IF ~heap[ch]
         THEN IF currentPos > position
              THEN DeleteLoopOffByOne(cont, [heap EXCEPT ![ch] = TRUE], position, length,
                              origin, i + 1, nDeleted + 1, currentPos + 1,
                              Append(ops, [type |-> "delete", char |-> ch, origin |-> origin]))
              ELSE DeleteLoopOffByOne(cont, heap, position, length, origin,
                              i + 1, nDeleted, currentPos + 1, ops)
         ELSE DeleteLoopOffByOne(cont, heap, position, length, origin,
                         i + 1, nDeleted, currentPos, ops)

\* The for loop of delete(), from index i of content on.
RECURSIVE DeleteLoop(_, _, _, _, _, _, _, _, _)
DeleteLoop(cont, heap, position, length, origin, i, nDeleted, currentPos, ops) ==
    IF ~(i < Len(cont) /\ nDeleted < length) THEN [heap |-> heap, ops |-> ops]
    ELSE LET ch == cont[i + 1] IN
         IF ~heap[ch]
         THEN IF currentPos >= position
              THEN DeleteLoop(cont, [heap EXCEPT ![ch] = TRUE], position, length, origin,
                              i + 1, nDeleted + 1, currentPos + 1,
                              Append(ops, [type |-> "delete", char |-> ch, origin |-> origin]))
              ELSE DeleteLoop(cont, heap, position, length, origin,
                              i + 1, nDeleted, currentPos + 1, ops)
         ELSE DeleteLoop(cont, heap, position, length, origin,
                         i + 1, nDeleted, currentPos, ops)

DeleteRemoves(doc, heap, position, length, origin) ==
    LET r == DeleteLoop(doc.content, heap, position, length, origin, 0, 0, 0, <<>>)
        deletedChars == [k \in 1..Len(r.ops) |-> r.ops[k].char]
        kept == SelectSeq(doc.content,
                          LAMBDA ch : \A k \in 1..Len(deletedChars) : deletedChars[k] # ch)
        doc2 == IF origin = "local"
                THEN [doc EXCEPT !.content = kept,
                                 !.undoStack = Append(@, DeleteEntry(position, deletedChars)),
                                 !.redoStack = <<>>]
                ELSE [doc EXCEPT !.content = kept]
    IN [doc |-> doc2, heap |-> r.heap, ops |-> r.ops]

\* delete(position, length, origin)
Delete(doc, heap, position, length, origin) ==
    LET r == DeleteLoop(doc.content, heap, position, length, origin, 0, 0, 0, <<>>)
        deletedChars == [k \in 1..Len(r.ops) |-> r.ops[k].char]
        doc2 == IF origin = "local"
                THEN [doc EXCEPT !.undoStack = Append(@, DeleteEntry(position, deletedChars)),
                                 !.redoStack = <<>>]
                ELSE doc
    IN [doc |-> doc2, heap |-> r.heap, ops |-> r.ops]

\* operation.chars.forEach(char => { char.deleted = flag })
SetDeleted(heap, chars, flag) ==
    [ch \in DOMAIN heap |->
        IF \E k \in 1..Len(chars) : chars[k] = ch THEN flag ELSE heap[ch]]

Pop(stack) == SubSeq(stack, 1, Len(stack) - 1)

UndoForgets(doc, heap) ==
    IF Len(doc.undoStack) = 0 THEN [doc |-> doc, heap |-> heap]
    ELSE LET operation == doc.undoStack[Len(doc.undoStack)]
             doc1 == [doc EXCEPT !.undoStack = Pop(@)]
         IN IF operation.type = "insert"
            THEN LET r == Delete(doc1, heap, operation.position, operation.count, "undo")
                 IN [doc |-> r.doc, heap |-> r.heap]
            ELSE [doc |-> doc1, heap |-> SetDeleted(heap, operation.chars, FALSE)]

\* undo()
Undo(doc, heap) ==
    IF Len(doc.undoStack) = 0 THEN [doc |-> doc, heap |-> heap]
    ELSE LET operation == doc.undoStack[Len(doc.undoStack)]
             doc1 == [doc EXCEPT !.undoStack = Pop(@)]
             entry == [operation EXCEPT !.isRedo = TRUE]
         IN IF operation.type = "insert"
            THEN LET r == Delete(doc1, heap, operation.position, operation.count, "undo")
                 IN [doc |-> [r.doc EXCEPT !.redoStack = Append(@, entry)],
                     heap |-> r.heap]
            ELSE [doc |-> [doc1 EXCEPT !.redoStack = Append(@, entry)],
                  heap |-> SetDeleted(heap, operation.chars, FALSE)]

\* redo()
Redo(doc, heap) ==
    IF Len(doc.redoStack) = 0 THEN [doc |-> doc, heap |-> heap]
    ELSE LET operation == doc.redoStack[Len(doc.redoStack)]
             doc1 == [doc EXCEPT !.redoStack = Pop(@)]
         IN IF operation.type = "insert"
            THEN LET r == Insert(doc1, heap, operation.position, operation.text, "redo")
                 IN [doc |-> [r.doc EXCEPT !.undoStack = Append(@, operation)],
                     heap |-> r.heap]
            ELSE [doc |-> [doc1 EXCEPT !.undoStack = Append(@, operation)],
                  heap |-> SetDeleted(heap, operation.chars, TRUE)]

\* The comparator of applyRemoteOps' sort: negative, zero or positive.
Compare(x, y) ==
    IF x.clientId = y.clientId THEN x.clock - y.clock
    ELSE ClientRank(x.clientId) - ClientRank(y.clientId)

\* Array.prototype.sort (stable) with that comparator.
RECURSIVE SortContent(_)
SortContent(s) ==
    IF Len(s) <= 1 THEN s
    ELSE LET front == SortContent(SubSeq(s, 1, Len(s) - 1))
             x == s[Len(s)]
             k == Cardinality({i \in 1..Len(front) : Compare(front[i], x) <= 0})
         IN SubSeq(front, 1, k) \o <<x>> \o SubSeq(front, k + 1, Len(front))

CharId(ch) == <<ch.clientId, ch.clock>>

HasId(cont, id) == \E k \in 1..Len(cont) : CharId(cont[k]) = id

ApplyRemoteOpAppends(cont, heap, op) ==
    IF op.type = "insert"
    THEN IF ~HasId(cont, CharId(op.char))
         THEN [content |-> Append(cont, op.char), heap |-> heap]
         ELSE [content |-> cont, heap |-> heap]
    ELSE IF op.type = "delete"
    THEN IF HasId(cont, CharId(op.char))
         THEN LET k == CHOOSE k \in 1..Len(cont) :
                          /\ CharId(cont[k]) = CharId(op.char)
                          /\ \A m \in 1..(k - 1) : CharId(cont[m]) # CharId(op.char)
              IN [content |-> cont, heap |-> [heap EXCEPT ![cont[k]] = TRUE]]
         ELSE [content |-> cont, heap |-> heap]
    ELSE [content |-> cont, heap |-> heap]

\* The body of applyRemoteOps' forEach for one operation.
ApplyRemoteOp(cont, heap, op) ==
    IF op.type = "insert"
    THEN IF ~HasId(cont, CharId(op.char))
         THEN [content |-> SortContent(Append(cont, op.char)), heap |-> heap]
         ELSE [content |-> cont, heap |-> heap]
    ELSE IF op.type = "delete"
    THEN IF HasId(cont, CharId(op.char))
         THEN LET k == CHOOSE k \in 1..Len(cont) :
                          /\ CharId(cont[k]) = CharId(op.char)
                          /\ \A m \in 1..(k - 1) : CharId(cont[m]) # CharId(op.char)
              IN [content |-> cont, heap |-> [heap EXCEPT ![cont[k]] = TRUE]]
         ELSE [content |-> cont, heap |-> heap]
    ELSE [content |-> cont, heap |-> heap]

\* applyRemoteOps(ops)
RECURSIVE ApplyRemoteOps(_, _, _)
ApplyRemoteOps(cont, heap, ops) ==
    IF ops = <<>> THEN [content |-> cont, heap |-> heap]
    ELSE LET r == ApplyRemoteOp(cont, heap, Head(ops))
         IN ApplyRemoteOps(r.content, r.heap, Tail(ops))

(***************************************************************************)
(* The editors of one window, linked by SimulatedConnection.               *)
(***************************************************************************)
Doc(c) ==
    [clientId |-> c, content |-> content[c], vectorClock |-> vectorClock[c],
     undoStack |-> undoStack[c], redoStack |-> redoStack[c]]

StoreDoc(c, doc) ==
    /\ content' = [content EXCEPT ![c] = doc.content]
    /\ vectorClock' = [vectorClock EXCEPT ![c] = doc.vectorClock]
    /\ undoStack' = [undoStack EXCEPT ![c] = doc.undoStack]
    /\ redoStack' = [redoStack EXCEPT ![c] = doc.redoStack]

\* broadcast(message): one timer per other connection that is connected.
Receivers(c) == {d \in Clients : d # c /\ connected[d]}

Broadcast(bag, c, message) ==
    bag (+) SetToBag({[to |-> d, message |-> message] : d \in Receivers(c)})

SendAlways(c, message) ==
    /\ inflight' = Broadcast(inflight, c, message)
    /\ UNCHANGED messageQueue

\* send(message)
Send(c, message) ==
    IF connected[c]
    THEN /\ inflight' = Broadcast(inflight, c, message)
         /\ UNCHANGED messageQueue
    ELSE /\ messageQueue' = [messageQueue EXCEPT ![c] = Append(@, message)]
         /\ UNCHANGED inflight

OpsMessage(c, ops) == [type |-> "ops", ops |-> ops, clientId |-> c]

TextLength(c) == Len(GetText(content[c], deleted))

\* handleTextChange, the text grew: insert at the cursor and send the operations.
TypeText(c) ==
    \E position \in 0..TextLength(c), text \in Texts :
        /\ edits < MaxEdits
        /\ LET r == Insert(Doc(c), deleted, position, text, "local")
           IN /\ StoreDoc(c, r.doc)
              /\ deleted' = r.heap
              /\ Send(c, OpsMessage(c, r.ops))
        /\ edits' = edits + 1
        /\ UNCHANGED <<connected, undoRedoSteps, received, serverVars>>

\* handleTextChange, the text shrank: delete at the cursor and send the operations.
DeleteText(c) ==
    \E position \in 0..TextLength(c), deleteCount \in 1..TextLength(c) :
        /\ position + deleteCount <= TextLength(c)
        /\ edits < MaxEdits
        /\ LET r == Delete(Doc(c), deleted, position, deleteCount, "local")
           IN /\ StoreDoc(c, r.doc)
              /\ deleted' = r.heap
              /\ Send(c, OpsMessage(c, r.ops))
        /\ edits' = edits + 1
        /\ UNCHANGED <<connected, undoRedoSteps, received, serverVars>>

\* handleUndo
HandleUndo(c) ==
    /\ undoRedoSteps < MaxUndoRedo
    /\ undoRedoSteps' = undoRedoSteps + 1
    /\ LET r == Undo(Doc(c), deleted)
       IN StoreDoc(c, r.doc) /\ deleted' = r.heap
    /\ UNCHANGED <<connected, messageQueue, inflight, edits, received, serverVars>>

\* handleRedo
HandleRedo(c) ==
    /\ undoRedoSteps < MaxUndoRedo
    /\ undoRedoSteps' = undoRedoSteps + 1
    /\ LET r == Redo(Doc(c), deleted)
       IN StoreDoc(c, r.doc) /\ deleted' = r.heap
    /\ UNCHANGED <<connected, messageQueue, inflight, edits, received, serverVars>>

\* handleDisconnect -> disconnect()
Disconnect(c) ==
    /\ connected[c]
    /\ connected' = [connected EXCEPT ![c] = FALSE]
    /\ UNCHANGED <<content, deleted, vectorClock, undoStack, redoStack,
                   messageQueue, inflight, edits, undoRedoSteps, received, serverVars>>

RECURSIVE BroadcastAll(_, _, _)
BroadcastAll(bag, c, queue) ==
    IF queue = <<>> THEN bag
    ELSE BroadcastAll(bag (+) SetToBag({[to |-> d, message |-> Head(queue)] :
                                           d \in Receivers(c)}),
                      c, Tail(queue))

\* handleReconnect -> reconnect(): the queued messages are broadcast in order.
Reconnect(c) ==
    /\ ~connected[c]
    /\ connected' = [connected EXCEPT ![c] = TRUE]
    /\ inflight' = BroadcastAll(inflight, c, messageQueue[c])
    /\ messageQueue' = [messageQueue EXCEPT ![c] = <<>>]
    /\ UNCHANGED <<content, deleted, vectorClock, undoStack, redoStack,
                   edits, undoRedoSteps, received, serverVars>>

\* A timer of broadcast() fires: conn.onMessage(message), the callback given
\* to the connection by the editor.
Deliver(c) ==
    \E e \in BagToSet(inflight) :
        /\ e.to = c
        /\ inflight' = inflight (-) SetToBag({e})
        /\ IF e.message.type = "ops" /\ e.message.clientId # c
           THEN LET r == ApplyRemoteOps(content[c], deleted, e.message.ops)
                IN /\ content' = [content EXCEPT ![c] = r.content]
                   /\ deleted' = r.heap
           ELSE UNCHANGED <<content, deleted>>
        /\ UNCHANGED <<vectorClock, undoStack, redoStack, connected, messageQueue,
                       edits, undoRedoSteps, received, serverVars>>

Init ==
    /\ content = [c \in Clients |-> <<>>]
    /\ deleted = <<>>
    /\ vectorClock = [c \in Clients |-> [o \in Clients |-> 0]]
    /\ undoStack = [c \in Clients |-> <<>>]
    /\ redoStack = [c \in Clients |-> <<>>]
    /\ connected = [c \in Clients |-> TRUE]
    /\ messageQueue = [c \in Clients |-> <<>>]
    /\ inflight = EmptyBag
    /\ edits = 0
    /\ undoRedoSteps = 0
    /\ received = <<>>
    /\ ServerInit

Next ==
    \E c \in Clients :
        \/ TypeText(c)
        \/ DeleteText(c)
        \/ HandleUndo(c)
        \/ HandleRedo(c)
        \/ Disconnect(c)
        \/ Reconnect(c)
        \/ Deliver(c)

\* The editors of one window, every button and every timer.
Spec == Init /\ [][Next]_vars

NextOnline ==
    \E c \in Clients :
        \/ TypeText(c)
        \/ DeleteText(c)
        \/ HandleUndo(c)
        \/ HandleRedo(c)
        \/ Deliver(c)

\* The same editors while nobody clicks "Go Offline".
SpecOnline == Init /\ [][NextOnline]_vars

NextOffline ==
    \E c \in Clients :
        \/ TypeText(c)
        \/ DeleteText(c)
        \/ Disconnect(c)
        \/ Reconnect(c)
        \/ Deliver(c)

\* The editors typing while anybody may go offline and come back.
OfflineSpec == Init /\ [][NextOffline]_vars

(***************************************************************************)
(* applyRemoteOps as a function of the operations it is fed: two replicas  *)
(* that share nothing (each is fed its own copy of every operation, as     *)
(* after a serialising transport) and start empty.                         *)
(***************************************************************************)
MaxReceived == 2      \* operations fed to one replica

Replicas == {"r1", "r2"}

\* The ids of the characters the operations are about.
IdUniverse == {<<"a", 1>>, <<"a", 2>>, <<"b", 1>>}

ValueOf(id) == IF id = <<"a", 1>> THEN "x" ELSE IF id = <<"a", 2>> THEN "y" ELSE "z"

\* An operation by kind and character id.
OpNames == [type : {"insert", "delete"}, id : IdUniverse]

\* Replica r's copy of the character object with that id.
CopyOf(id, r) == [clientId |-> id[1], clock |-> id[2], value |-> ValueOf(id), obj |-> r]

\* The operation as insert() and delete() emit it, in replica r's copy.
OpFor(name, r) == [type |-> name.type, char |-> CopyOf(name.id, r), origin |-> "local"]

OpName(op) == [type |-> op.type, id |-> CharId(op.char)]

\* The lists one applyRemoteOps call may be given.
OpNameLists == {<<n>> : n \in OpNames} \cup {<<n, m>> : n \in OpNames, m \in OpNames}

OpsFor(names, r) == [k \in 1..Len(names) |-> OpFor(names[k], r)]

\* replica.applyRemoteOps(ops)
ReceiveOps(r) ==
    \E names \in OpNameLists :
        /\ Len(received[r]) + Len(names) <= MaxReceived
        /\ LET res == ApplyRemoteOps(content[r], deleted, OpsFor(names, r))
           IN /\ content' = [content EXCEPT ![r] = res.content]
              /\ deleted' = res.heap
        /\ received' = [received EXCEPT ![r] = @ \o names]
        /\ UNCHANGED <<vectorClock, undoStack, redoStack, connected, messageQueue,
                       inflight, edits, undoRedoSteps, serverVars>>

MergeInit ==
    /\ content = [r \in Replicas |-> <<>>]
    /\ deleted = [ch \in {CopyOf(id, r) : id \in IdUniverse, r \in Replicas} |-> FALSE]
    /\ vectorClock = [r \in Replicas |-> [o \in Clients |-> 0]]
    /\ undoStack = [r \in Replicas |-> <<>>]
    /\ redoStack = [r \in Replicas |-> <<>>]
    /\ connected = [r \in Replicas |-> TRUE]
    /\ messageQueue = [r \in Replicas |-> <<>>]
    /\ inflight = EmptyBag
    /\ edits = 0
    /\ undoRedoSteps = 0
    /\ received = [r \in Replicas |-> <<>>]
    /\ ServerInit

MergeNext == \E r \in Replicas : ReceiveOps(r)

MergeSpec == MergeInit /\ [][MergeNext]_vars

(***************************************************************************)
(* server.js: the registry of DocumentManager records, the WebSocket       *)
(* sessions, the heartbeat, the REST requests and the persistence          *)
(* directory.  A Y.Doc is modelled by the set of operations it holds:      *)
(* Y.applyUpdate adds the operations of the update, Y.encodeStateAsUpdate  *)
(* yields all of them, and the 'update' event fires only when an update    *)
(* brought something new, carrying what was new.  Every handler runs to    *)
(* its first await in one step; a file-system call that was started        *)
(* completes in a later step, in any order with the others.                *)
(* Messages are handled for sockets that are open; each session connects   *)
(* once.                                                                   *)
(***************************************************************************)
MaxRequests == 3      \* messages and REST requests handled by the server
MaxSnapshots == 1     \* firings of the snapshot timers

\* saveSnapshot keeps the newest 5 snapshot files of a document (line 111).
KeptSnapshots == 5

\* The operations an update can carry: each session authors one.
Items == {<<s, 1>> : s \in Sessions}

\* The payloads session s sends: its operation, or bytes that do not decode.
UpdatesOf(s) == {[valid |-> TRUE, items |-> {<<s, 1>>}], [valid |-> FALSE, items |-> {}]}

\* The docId field of a message ("" stands for a missing docId).
DocIdFields == DocIds \cup {""}

NothingSent == [s \in Sessions |-> <<>>]

\* The state a handler starts from.  calls: the calls of saveState and
\* broadcastUpdate the handler has made so far, in order.
ServerState ==
    [documents |-> documents, managers |-> managers, files |-> files,
     snapshotFiles |-> snapshotFiles, pending |-> pending, sockets |-> sockets,
     sent |-> NothingSent, delivered |-> delivered, responded |-> responded,
     lastWrite |-> lastWrite, response |-> NoResponse, logged |-> <<>>,
     process |-> process, calls |-> <<>>]

\* The process, which has not exited, moves to the state a handler produced.
StoreServer(sv) ==
    /\ process \notin Exited
    /\ process' = sv.process
    /\ response' = sv.response
    /\ logged' = sv.logged
    /\ documents' = sv.documents
    /\ managers' = sv.managers
    /\ files' = sv.files
    /\ snapshotFiles' = sv.snapshotFiles
    /\ pending' = sv.pending
    /\ sockets' = sv.sockets
    /\ sent' = sv.sent
    /\ delivered' = sv.delivered
    /\ responded' = sv.responded
    /\ lastWrite' = sv.lastWrite

NoStats == [docId |-> "", clients |-> 0, textLength |-> 0]

\* JSON.stringify({type, ...}) as sent to a client.
Message(type, docId, update, text, stats) ==
    [type |-> type, docId |-> docId, update |-> update, message |-> text, stats |-> stats]

\* A started file-system call of DocumentManager m (0: of no record);
\* awaited: its promise is one of the savePromises of the SIGTERM handler.
FileOp(op, m, docId, data, ts) ==
    [op |-> op, m |-> m, docId |-> docId, data |-> data, ts |-> ts, awaited |-> FALSE]

Start(sv, fileOp) == [sv EXCEPT !.pending = @ (+) SetToBag({fileOp})]

\* client.send(message): reaches the client only while the socket is open.
ClientSend(sv, s, message) ==
    IF sv.sockets[s].readyState = "OPEN"
    THEN [sv EXCEPT !.sent[s] = Append(@, message),
                    !.delivered[s] = IF message.type \in {"sync", "update"}
                                     THEN @ \cup message.update ELSE @]
    ELSE sv

\* saveState(): the state is encoded now, the write completes later.
SaveState(sv, m) ==
    LET docId == sv.managers[m].docId
        state == sv.managers[m].doc
    IN [Start(sv, FileOp("writeFile", m, docId, state, 0))
            EXCEPT !.lastWrite[docId] = FileOf(state),
                   !.calls = Append(@, "saveState")]

\* forEach over a set of clients, each sent the same message.
RECURSIVE SendEach(_, _, _)
SendEach(sv, clients, message) ==
    IF clients = {} THEN sv
    ELSE LET c == CHOOSE c \in clients : TRUE
         IN SendEach(ClientSend(sv, c, message), clients \ {c}, message)

BroadcastUpdateToAll(sv, m, update, origin) ==
    SendEach([sv EXCEPT !.calls = Append(@, "broadcastUpdate")], sv.managers[m].clients,
             Message("update", sv.managers[m].docId, update, "", NoStats))

\* broadcastUpdate(update, origin): to every attached open client but the origin.
BroadcastUpdate(sv, m, update, origin) ==
    SendEach([sv EXCEPT !.calls = Append(@, "broadcastUpdate")],
             {c \in sv.managers[m].clients : c # origin},
             Message("update", sv.managers[m].docId, update, "", NoStats))

ApplyUpdateUncaught(sv, m, update, origin) ==
    LET doc == sv.managers[m].doc
        new == update.items \ doc
        merged == [sv EXCEPT !.managers[m].doc = doc \cup update.items]
    IN IF new = {} THEN sv
       ELSE IF origin = "load" THEN merged
       ELSE BroadcastUpdate(SaveState(merged, m), m, new, origin)

\* applyUpdate(update, origin) with the 'update' handler of the constructor:
\* bytes that do not decode make Y.applyUpdate throw before it changes the
\* Y.Doc, which the catch block logs; an update that brings nothing new
\* fires no event; a load is neither saved nor broadcast.
ApplyUpdate(sv, m, update, origin) ==
    LET doc == sv.managers[m].doc
        new == update.items \ doc
        merged == [sv EXCEPT !.managers[m].doc = doc \cup update.items]
    IN IF ~update.valid THEN [sv EXCEPT !.logged = Append(@, "Error applying update")]
       ELSE IF new = {} THEN sv
       ELSE IF origin = "load" THEN merged
       ELSE BroadcastUpdate(SaveState(merged, m), m, new, origin)

\* new DocumentManager(docId): an empty Y.Doc, no client, the snapshot timer
\* armed, and loadState() started.  Its two awaits, fs.pathExists and then
\* fs.readFile, are one pending call that completes when the file is read:
\* the file is merged as it is then, if it exists then.
NewDocumentManager(sv, docId) ==
    LET m == Len(sv.managers) + 1
        created == [sv EXCEPT !.managers = Append(@,
                        [docId |-> docId, doc |-> {}, clients |-> {},
                         snapshotInterval |-> TRUE])]
    IN Start(created, FileOp("loadState", m, docId, {}, 0))

\* getDocument(docId)
GetDocument(sv, docId) ==
    IF sv.documents[docId] = 0
    THEN [NewDocumentManager(sv, docId) EXCEPT !.documents[docId] = Len(sv.managers) + 1]
    ELSE sv

AddClientStaleSync(sv, m, s) ==
    LET added == [sv EXCEPT !.managers[m].clients = @ \cup {s}]
    IN ClientSend(added, s, Message("sync", added.managers[m].docId, {}, "", NoStats))

\* addClient(client)
AddClient(sv, m, s) ==
    LET added == [sv EXCEPT !.managers[m].clients = @ \cup {s}]
    IN ClientSend(added, s,
           Message("sync", added.managers[m].docId, added.managers[m].doc, "", NoStats))

\* getStats()
GetStats(sv, m) ==
    [docId |-> sv.managers[m].docId,
     clients |-> Cardinality(sv.managers[m].clients),
     textLength |-> Cardinality(sv.managers[m].doc)]

CleanupClearsRegistry(sv, m) ==
    LET stopped == [sv EXCEPT !.managers[m].snapshotInterval = FALSE]
    IN [SaveState(stopped, m) EXCEPT !.documents = [d \in AllDocIds |-> 0]]

CleanupKeepsTimer(sv, m) ==
    [SaveState(sv, m) EXCEPT !.documents[sv.managers[m].docId] = 0]

\* cleanup(): documents.delete(this.docId) removes whatever record the
\* registry holds under that docId.
Cleanup(sv, m) ==
    LET stopped == [sv EXCEPT !.managers[m].snapshotInterval = FALSE]
    IN [SaveState(stopped, m) EXCEPT !.documents[sv.managers[m].docId] = 0]

\* removeClient(client)
RemoveClient(sv, m, s) ==
    LET removed == [sv EXCEPT !.managers[m].clients = @ \ {s}]
    IN IF removed.managers[m].clients = {} THEN Cleanup(removed, m) ELSE removed

HandleJoinKeepsOld(sv, s, docId) ==
    IF docId = ""
    THEN ClientSend(sv, s, Message("error", "", {}, "Document ID required", NoStats))
    ELSE LET moved == [sv EXCEPT !.sockets[s].currentDoc = docId,
                                 !.sockets[s].fileAtJoin = sv.files[docId].data,
                                 !.responded = @ \ {docId}]
             got == GetDocument(moved, docId)
             m == got.documents[docId]
             added == AddClient(got, m, s)
         IN ClientSend(added, s, Message("joined", docId, {}, "", GetStats(added, m)))

\* handleJoin(ws, message)
HandleJoin(sv, s, docId) ==
    IF docId = ""
    THEN ClientSend(sv, s, Message("error", "", {}, "Document ID required", NoStats))
    ELSE LET old == sv.sockets[s].currentDoc
             left == IF old # "" /\ sv.documents[old] # 0
                     THEN RemoveClient(sv, sv.documents[old], s)
                     ELSE sv
             moved == [left EXCEPT !.sockets[s].currentDoc = docId,
                                   !.sockets[s].fileAtJoin = left.files[docId].data,
                                   !.responded = @ \ {docId}]
             got == GetDocument(moved, docId)
             m == got.documents[docId]
             added == AddClient(got, m, s)
         IN ClientSend(added, s, Message("joined", docId, {}, "", GetStats(added, m)))

HandleUpdateUnchecked(sv, s, docId, update) ==
    IF docId # "" /\ sv.documents[docId] # 0
    THEN ApplyUpdate(sv, sv.documents[docId], update, s)
    ELSE sv

\* handleUpdate(ws, message)
HandleUpdate(sv, s, docId, update) ==
    IF sv.sockets[s].currentDoc = "" \/ sv.sockets[s].currentDoc # docId
    THEN ClientSend(sv, s, Message("error", "", {}, "Not in document", NoStats))
    ELSE IF sv.documents[docId] # 0
         THEN ApplyUpdate(sv, sv.documents[docId], update, s)
         ELSE sv

\* handleSyncRequest(ws, message)
HandleSyncRequest(sv, s, docId) ==
    IF docId = "" \/ sv.documents[docId] = 0
    THEN ClientSend(sv, s, Message("error", "", {}, "Document not found", NoStats))
    ELSE ClientSend(sv, s,
             Message("sync", docId, sv.managers[sv.documents[docId]].doc, "", NoStats))

\* ws.terminate() and ws.close(): the socket is closing, its 'close' event
\* comes later.
CloseSocket(socket, by) ==
    IF socket.readyState = "OPEN"
    THEN [socket EXCEPT !.readyState = "CLOSING", !.closedBy = by]
    ELSE socket

\* handleUndo(ws, message) and handleRedo(ws, message): acknowledged to the sender.
ServerHandleUndo(sv, s, docId) ==
    ClientSend(sv, s, Message("undo-ack", docId, {}, "", NoStats))

ServerHandleRedo(sv, s, docId) ==
    ClientSend(sv, s, Message("redo-ack", docId, {}, "", NoStats))

\* The frames a session can send: the five types of the protocol, a type the
\* switch does not know ("hello"), and bytes that JSON.parse rejects.
MessageTypes == {"join", "update", "sync-request", "undo", "redo", "hello", "unparsable"}

\* ws.on('message'): JSON.parse, the switch over message.type with its
\* default branch (console.log only), and the catch block.
OnMessage(sv, s, message) ==
    CASE message.type = "unparsable" ->
            ClientSend(sv, s, Message("error", "", {}, "Unexpected token", NoStats))
      [] message.type = "join" -> HandleJoin(sv, s, message.docId)
      [] message.type = "update" -> HandleUpdate(sv, s, message.docId, message.update)
      [] message.type = "sync-request" -> HandleSyncRequest(sv, s, message.docId)
      [] message.type = "undo" -> ServerHandleUndo(sv, s, message.docId)
      [] message.type = "redo" -> ServerHandleRedo(sv, s, message.docId)
      [] OTHER -> [sv EXCEPT !.logged = Append(@, "Unknown message type")]

\* res.status(404).json({ error: 'Document not found' }) and res.json(stats)
NotFound == [NoResponse EXCEPT !.status = 404, !.error = "Document not found"]

StatsResponse(stats) ==
    [NoResponse EXCEPT !.status = 200, !.docId = stats.docId,
                       !.clients = stats.clients, !.textLength = stats.textLength]

GetDocumentInfoCreates(sv, docId) ==
    LET got == GetDocument(sv, docId)
    IN [got EXCEPT !.response = StatsResponse(GetStats(got, got.documents[docId]))]

\* app.get('/api/documents/:docId')
GetDocumentInfo(sv, docId) ==
    IF sv.documents[docId] = 0
    THEN [sv EXCEPT !.response = NotFound]
    ELSE [sv EXCEPT !.response = StatsResponse(GetStats(sv, sv.documents[docId]))]

\* app.delete('/api/documents/:docId') up to its first await: every client of
\* the record is told and closed, then fs.remove of the canonical file starts.
DeleteDocumentRequest(sv, docId) ==
    IF sv.documents[docId] = 0
    THEN [sv EXCEPT !.response = NotFound]
    ELSE LET m == sv.documents[docId]
             told == SendEach(sv, sv.managers[m].clients,
                         Message("document-deleted", docId, {}, "", NoStats))
             closed == [told EXCEPT !.sockets = [c \in Sessions |->
                             IF c \in sv.managers[m].clients
                             THEN CloseSocket(sv.sockets[c], "server")
                             ELSE sv.sockets[c]]]
         IN Start(closed, FileOp("remove", m, docId, {}, 0))

\* wss.on('connection'): a new socket, greeted with 'connected'.  A server
\* on which server.close() was called accepts no connection.
OnConnection(s) ==
    /\ sockets[s].readyState = "NONE"
    /\ process \in {"running", "saving"}
    /\ LET opened == [ServerState EXCEPT !.sockets[s] =
                          [NoSocket EXCEPT !.readyState = "OPEN", !.isAlive = TRUE]]
       IN StoreServer(ClientSend(opened, s, Message("connected", "", {}, "", NoStats)))
    /\ UNCHANGED <<timeNow, requests, editorVars>>

\* ws.on('message'), type 'join'
JoinMessage(s) ==
    \E docId \in DocIdFields :
        /\ sockets[s].readyState = "OPEN"
        /\ requests < MaxRequests
        /\ requests' = requests + 1
        /\ StoreServer(HandleJoin(ServerState, s, docId))
        /\ UNCHANGED <<timeNow, editorVars>>

\* ws.on('message'), type 'update'
UpdateMessage(s) ==
    \E docId \in DocIdFields, update \in UpdatesOf(s) :
        /\ sockets[s].readyState = "OPEN"
        /\ requests < MaxRequests
        /\ requests' = requests + 1
        /\ StoreServer(HandleUpdate(ServerState, s, docId, update))
        /\ UNCHANGED <<timeNow, editorVars>>

\* ws.on('message'), type 'sync-request'
SyncRequestMessage(s) ==
    \E docId \in DocIdFields :
        /\ sockets[s].readyState = "OPEN"
        /\ requests < MaxRequests
        /\ requests' = requests + 1
        /\ StoreServer(HandleSyncRequest(ServerState, s, docId))
        /\ UNCHANGED <<timeNow, editorVars>>

\* ws.on('message') with a frame of another kind: 'undo', 'redo', an unknown
\* type, or bytes that do not parse.
OtherMessage(s) ==
    \E type \in {"undo", "redo", "hello", "unparsable"}, docId \in DocIdFields :
        /\ sockets[s].readyState = "OPEN"
        /\ requests < MaxRequests
        /\ requests' = requests + 1
        /\ StoreServer(OnMessage(ServerState, s,
                            [type |-> type, docId |-> docId, update |-> {}]))
        /\ UNCHANGED <<timeNow, editorVars>>

\* ws.on('pong')
OnPong(s) ==
    /\ sockets[s].readyState = "OPEN"
    /\ ~sockets[s].isAlive
    /\ StoreServer([ServerState EXCEPT !.sockets[s].isAlive = TRUE])
    /\ UNCHANGED <<timeNow, requests, editorVars>>

ProbeAll(socket) ==
    [socket EXCEPT !.isAlive = FALSE]

\* One pass of the heartbeat over a socket of wss.clients.
Probe(socket) ==
    IF ~socket.isAlive
    THEN CloseSocket(socket, "heartbeat")
    ELSE [socket EXCEPT !.isAlive = FALSE]

\* heartbeatInterval fires.
Heartbeat ==
    /\ \E s \in Sessions : sockets[s].readyState \in {"OPEN", "CLOSING"}
    /\ StoreServer([ServerState EXCEPT !.sockets = [s \in Sessions |->
                      IF sockets[s].readyState \in {"OPEN", "CLOSING"}
                      THEN Probe(sockets[s])
                      ELSE sockets[s]]])
    /\ UNCHANGED <<timeNow, requests, editorVars>>

\* ws.on('close'), after the peer closed or after terminate() or close().
OnClose(sv, s) ==
    LET closed == [sv EXCEPT !.sockets[s].readyState = "CLOSED",
                             !.sockets[s].closedBy = IF @ = "" THEN "peer" ELSE @]
        docId == sv.sockets[s].currentDoc
    IN IF docId # "" /\ closed.documents[docId] # 0
       THEN RemoveClient(closed, closed.documents[docId], s)
       ELSE closed

CloseEvent(s) ==
    /\ sockets[s].readyState \in {"OPEN", "CLOSING"}
    /\ StoreServer(OnClose(ServerState, s))
    /\ UNCHANGED <<timeNow, requests, editorVars>>

\* app.post('/api/documents')
PostDocument ==
    \E docId \in DocIds :
        /\ requests < MaxRequests
        /\ requests' = requests + 1
        /\ LET got == GetDocument(ServerState, docId)
           IN StoreServer([got EXCEPT
                  !.responded = @ \ {docId},
                  !.response = StatsResponse(GetStats(got, got.documents[docId]))])
        /\ UNCHANGED <<timeNow, editorVars>>

\* A GET request for the statistics of one document.
DocumentInfoRequest ==
    \E docId \in DocIds :
        /\ requests < MaxRequests
        /\ requests' = requests + 1
        /\ StoreServer(GetDocumentInfo(ServerState, docId))
        /\ UNCHANGED <<timeNow, editorVars>>

\* A DELETE request arrives.
DeleteDocument ==
    \E docId \in DocIds :
        /\ requests < MaxRequests
        /\ requests' = requests + 1
        /\ StoreServer(DeleteDocumentRequest(ServerState, docId))
        /\ UNCHANGED <<timeNow, editorVars>>

\* snapshotInterval of record m fires: saveSnapshot() up to its first await.
SnapshotTimer ==
    \E m \in 1..Len(managers) :
        /\ managers[m].snapshotInterval
        /\ timeNow < MaxSnapshots
        /\ timeNow' = timeNow + 1
        /\ StoreServer(Start(ServerState, FileOp("writeSnapshot", m, managers[m].docId,
                                                  managers[m].doc, timeNow + 1)))
        /\ UNCHANGED <<requests, editorVars>>

\* The entries of fs.readdir that pass the filter
\* f.startsWith(`${docId}.snapshot.`): the snapshot files of docId, and the
\* snapshot files and the canonical file of a document whose docId begins
\* with that prefix.
SnapshotsListed(sv, docId) ==
    {[kind |-> "snapshot", docId |-> g.docId, ts |-> g.ts] :
        g \in {h \in sv.snapshotFiles :
                  h.docId = docId \/ StartsWithSnapshotPrefix(h.docId, docId)}}
    \cup {[kind |-> "canonical", docId |-> d, ts |-> 0] :
             d \in {e \in AllDocIds :
                       sv.files[e].exists /\ StartsWithSnapshotPrefix(e, docId)}}

\* The place of a listed name in the order of sort(): after the prefix an
\* own snapshot goes on with its timestamp (13 digits, the first not 0), the
\* canonical file of the nested document with "0.yjs" and a snapshot of the
\* nested document with "0.snapshot.".
NameClass(f, docId) ==
    IF f.docId = docId THEN 2 ELSE IF f.kind = "canonical" THEN 1 ELSE 0

NameBefore(f, g, docId) ==
    \/ NameClass(f, docId) < NameClass(g, docId)
    \/ NameClass(f, docId) = NameClass(g, docId) /\ f.ts < g.ts

\* The listed files saveSnapshot removes: all but the last KeptSnapshots names.
OldSnapshots(snaps, docId) ==
    {f \in snaps : Cardinality({g \in snaps : NameBefore(f, g, docId)}) >= KeptSnapshots}

\* fs.remove of each of the listed files.
RemoveListed(sv, listed) ==
    [sv EXCEPT
        !.snapshotFiles = {g \in @ : [kind |-> "snapshot", docId |-> g.docId,
                                       ts |-> g.ts] \notin listed},
        !.files = [d \in AllDocIds |->
                      IF [kind |-> "canonical", docId |-> d, ts |-> 0] \in listed
                      THEN NoFile ELSE @[d]]]

CompletedLoadNotTagged(sv, f) ==
    CASE f.op = "loadState" ->
            IF sv.files[f.docId].exists
            THEN ApplyUpdate(sv, f.m,
                     [valid |-> TRUE, items |-> sv.files[f.docId].data], "")
            ELSE sv
      [] f.op = "writeFile" ->
            [sv EXCEPT !.files[f.docId] = FileOf(f.data)]
      [] f.op = "writeSnapshot" ->
            Start([sv EXCEPT !.snapshotFiles = @ \cup {[docId |-> f.docId, ts |-> f.ts]}],
                  FileOp("pruneSnapshots", f.m, f.docId, {}, 0))
      [] f.op = "pruneSnapshots" ->
            RemoveListed(sv, OldSnapshots(SnapshotsListed(sv, f.docId), f.docId))
      [] f.op = "remove" ->
            Start([sv EXCEPT !.files[f.docId] = NoFile],
                  FileOp("removeSnapshots", f.m, f.docId, {}, 0))
      [] f.op = "removeSnapshots" ->
            [Cleanup(RemoveListed(sv, SnapshotsListed(sv, f.docId)), f.m)
                EXCEPT !.responded = @ \cup {f.docId},
                       !.response = [NoResponse EXCEPT !.status = 200]]

\* What the handler that awaited the file-system call does when it completes.
Completed(sv, f) ==
    CASE f.op = "loadState" ->
            IF sv.files[f.docId].exists
            THEN ApplyUpdate(sv, f.m,
                     [valid |-> TRUE, items |-> sv.files[f.docId].data], "load")
            ELSE sv
      [] f.op = "writeFile" ->
            [sv EXCEPT !.files[f.docId] = FileOf(f.data)]
      [] f.op = "writeSnapshot" ->
            Start([sv EXCEPT !.snapshotFiles = @ \cup {[docId |-> f.docId, ts |-> f.ts]}],
                  FileOp("pruneSnapshots", f.m, f.docId, {}, 0))
      [] f.op = "pruneSnapshots" ->
            RemoveListed(sv, OldSnapshots(SnapshotsListed(sv, f.docId), f.docId))
      [] f.op = "remove" ->
            Start([sv EXCEPT !.files[f.docId] = NoFile],
                  FileOp("removeSnapshots", f.m, f.docId, {}, 0))
      [] f.op = "removeSnapshots" ->
            [Cleanup(RemoveListed(sv, SnapshotsListed(sv, f.docId)), f.m)
                EXCEPT !.responded = @ \cup {f.docId},
                       !.response = [NoResponse EXCEPT !.status = 200]]

\* saveState() as called by the SIGTERM handler, which keeps its promise.
SaveStateAwaited(sv, m) ==
    LET docId == sv.managers[m].docId
        state == sv.managers[m].doc
    IN [Start(sv, [FileOp("writeFile", m, docId, state, 0) EXCEPT !.awaited = TRUE])
            EXCEPT !.lastWrite[docId] = FileOf(state),
                   !.calls = Append(@, "saveState")]

\* Array.from(documents.values()).map(doc => doc.saveState())
RECURSIVE SaveAll(_, _)
SaveAll(sv, ms) ==
    IF ms = {} THEN sv
    ELSE LET m == CHOOSE m \in ms : TRUE
         IN SaveAll(SaveStateAwaited(sv, m), ms \ {m})

\* What follows `await Promise.all(savePromises)` once every awaited write
\* has completed: server.close(callback), then the force timer is armed.
AfterSave(sv) ==
    IF sv.process = "saving" /\ \A f \in BagToSet(sv.pending) : ~f.awaited
    THEN [sv EXCEPT !.process = "closing"]
    ELSE sv

\* A started file-system call completes.
FileOpDone ==
    \E f \in BagToSet(pending) :
        /\ StoreServer(AfterSave(Completed([ServerState EXCEPT
                                                !.pending = @ (-) SetToBag({f})], f)))
        /\ UNCHANGED <<timeNow, requests, editorVars>>

\* What saveState() does when fs.writeFile rejects: the catch block logs.
Failed(sv, f) == [sv EXCEPT !.logged = Append(@, "Error saving document")]

\* A started write of a canonical file fails.
WriteFails ==
    \E f \in BagToSet(pending) :
        /\ f.op = "writeFile"
        /\ StoreServer(AfterSave(Failed([ServerState EXCEPT
                                             !.pending = @ (-) SetToBag({f})], f)))
        /\ UNCHANGED <<timeNow, requests, editorVars>>

\* process.on('SIGTERM'), delivered once, up to its await.
Sigterm ==
    /\ process = "running"
    /\ StoreServer(AfterSave(SaveAll([ServerState EXCEPT !.process = "saving"],
                                     {documents[d] : d \in AllDocIds} \ {0})))
    /\ UNCHANGED <<timeNow, requests, editorVars>>

\* The callback of server.close(): every connection has ended.
ServerClosed ==
    /\ process = "closing"
    /\ \A s \in Sessions : sockets[s].readyState \notin {"OPEN", "CLOSING"}
    /\ StoreServer([ServerState EXCEPT !.process = "exit0"])
    /\ UNCHANGED <<timeNow, requests, editorVars>>

\* The force timer, armed after the await, fires.
ForceExit ==
    /\ process = "closing"
    /\ StoreServer([ServerState EXCEPT !.process = "exit1"])
    /\ UNCHANGED <<timeNow, requests, editorVars>>

ServerNext ==
    \/ \E s \in Sessions : OnConnection(s)
    \/ \E s \in Sessions : JoinMessage(s)
    \/ \E s \in Sessions : UpdateMessage(s)
    \/ \E s \in Sessions : CloseEvent(s)
    \/ FileOpDone

\* The server with its sessions and its file system.
ServerSpec == Init /\ [][ServerNext]_vars

HeartbeatNext ==
    \/ \E s \in Sessions : OnConnection(s)
    \/ \E s \in Sessions : JoinMessage(s)
    \/ \E s \in Sessions : OnPong(s)
    \/ \E s \in Sessions : CloseEvent(s)
    \/ Heartbeat

\* The sessions under the heartbeat, while no file-system call completes.
HeartbeatSpec == Init /\ [][HeartbeatNext]_vars

AdminNext ==
    \/ \E s \in Sessions : OnConnection(s)
    \/ \E s \in Sessions : JoinMessage(s)
    \/ \E s \in Sessions : UpdateMessage(s)
    \/ \E s \in Sessions : SyncRequestMessage(s)
    \/ \E s \in Sessions : CloseEvent(s)
    \/ PostDocument
    \/ DeleteDocument
    \/ SnapshotTimer
    \/ FileOpDone

\* The server with the REST requests and the snapshot timers as well.
AdminSpec == Init /\ [][AdminNext]_vars

RequestNext ==
    \/ \E s \in Sessions : OnConnection(s)
    \/ \E s \in Sessions : JoinMessage(s)
    \/ \E s \in Sessions : SyncRequestMessage(s)
    \/ \E s \in Sessions : OtherMessage(s)
    \/ \E s \in Sessions : CloseEvent(s)
    \/ DocumentInfoRequest
    \/ DeleteDocument
    \/ FileOpDone

\* The requests that can name a missing document or be no request at all.
RequestSpec == Init /\ [][RequestNext]_vars

\* ws.on('message'), type 'join', for the document named NestedDocId
JoinNestedMessage(s) ==
    /\ sockets[s].readyState = "OPEN"
    /\ requests < MaxRequests
    /\ requests' = requests + 1
    /\ StoreServer(HandleJoin(ServerState, s, NestedDocId))
    /\ UNCHANGED <<timeNow, editorVars>>

\* The snapshot files of d1 an earlier run of the server left in
\* PERSISTENCE_DIR, which fs.ensureDir keeps: the KeptSnapshots newest.
PreviousSnapshots == {[docId |-> "d1", ts |-> t] : t \in (1 - KeptSnapshots)..0}

\* The server started over the directory of an earlier run.
SnapshotInit ==
    /\ content = [c \in Clients |-> <<>>]
    /\ deleted = <<>>
    /\ vectorClock = [c \in Clients |-> [o \in Clients |-> 0]]
    /\ undoStack = [c \in Clients |-> <<>>]
    /\ redoStack = [c \in Clients |-> <<>>]
    /\ connected = [c \in Clients |-> TRUE]
    /\ messageQueue = [c \in Clients |-> <<>>]
    /\ inflight = EmptyBag
    /\ edits = 0
    /\ undoRedoSteps = 0
    /\ received = <<>>
    /\ documents = [d \in AllDocIds |-> 0]
    /\ managers = <<>>
    /\ files = [d \in AllDocIds |-> NoFile]
    /\ snapshotFiles = PreviousSnapshots
    /\ pending = EmptyBag
    /\ sockets = [s \in Sessions |-> NoSocket]
    /\ sent = [s \in Sessions |-> <<>>]
    /\ delivered = [s \in Sessions |-> {}]
    /\ lastWrite = [d \in AllDocIds |-> NoFile]
    /\ responded = {}
    /\ timeNow = 0
    /\ requests = 0
    /\ response = NoResponse
    /\ logged = <<>>
    /\ process = "running"

SnapshotNext ==
    \/ \E s \in Sessions : OnConnection(s)
    \/ \E s \in Sessions : JoinMessage(s)
    \/ \E s \in Sessions : JoinNestedMessage(s)
    \/ \E s \in Sessions : CloseEvent(s)
    \/ SnapshotTimer
    \/ FileOpDone

\* The snapshot timers over the files of an earlier run, with a document
\* whose docId begins with the snapshot prefix of another.
SnapshotSpec == SnapshotInit /\ [][SnapshotNext]_vars

IsolationNext ==
    \/ \E s \in Sessions : OnConnection(s)
    \/ \E s \in Sessions : JoinMessage(s)
    \/ \E s \in Sessions : UpdateMessage(s)
    \/ \E s \in Sessions : CloseEvent(s)
    \/ FileOpDone
    \/ WriteFails

\* The server with its sessions over a file system whose writes may fail.
IsolationSpec == Init /\ [][IsolationNext]_vars

ShutdownNext ==
    \/ \E s \in Sessions : OnConnection(s)
    \/ \E s \in Sessions : JoinMessage(s)
    \/ \E s \in Sessions : UpdateMessage(s)
    \/ \E s \in Sessions : CloseEvent(s)
    \/ FileOpDone
    \/ Sigterm
    \/ ServerClosed
    \/ ForceExit

\* The server up to its exit.  The timer and the close callback fire when
\* they can; a file-system call may never complete.
ShutdownSpec ==
    /\ Init /\ [][ShutdownNext]_vars
    /\ WF_vars(ForceExit) /\ WF_vars(ServerClosed)

(***************************************************************************)
(* Properties                                                              *)
(***************************************************************************)
Text(c) == GetText(content[c], deleted)

Range(s) == {s[k] : k \in 1..Len(s)}

IdSet(cont) == {CharId(cont[k]) : k \in 1..Len(cont)}

\* Where operation n first occurs in the list (0: nowhere).
FirstAt(log, n) ==
    IF n \in Range(log) THEN CHOOSE k \in 1..Len(log) :
                                 log[k] = n /\ \A m \in 1..(k - 1) : log[m] # n
    ELSE 0

InsertOf(id) == [type |-> "insert", id |-> id]
DeleteOf(id) == [type |-> "delete", id |-> id]

\* Replica r holds the character with that id, tombstoned.
Tombstoned(r, id) ==
    \E k \in 1..Len(content[r]) : CharId(content[r][k]) = id /\ deleted[content[r][k]]

\* C1 (MergeSpec): two replicas that started empty and were fed the same set
\* of insert and delete operations, in any order and any number of times each,
\* show the same text.
Convergence ==
    \A r1, r2 \in Replicas :
        Range(received[r1]) = Range(received[r2]) => Text(r1) = Text(r2)

\* C2 (Spec): whenever a replica that merged the operations another editor
\* emitted holds the same characters as that editor, which typed all of them,
\* both show the same text.
OriginAndReceiverAgree ==
    \A c, d \in Clients :
        (/\ c # d
         /\ \A k \in 1..Len(content[c]) : content[c][k].clientId = c
         /\ IdSet(content[c]) = IdSet(content[d]))
        => Text(c) = Text(d)

\* Every editor is connected, nothing is queued and no delivery is pending.
Quiescent ==
    /\ \A c \in Clients : connected[c] /\ messageQueue[c] = <<>>
    /\ inflight = EmptyBag

\* C3 (Spec): once every editor is connected again and every queued and
\* in-flight message has been delivered, all replicas show the same text.
ConvergedWhenQuiescent ==
    Quiescent => \A c, d \in Clients : Text(c) = Text(d)

\* C4 (MergeSpec): in every replica state, calling applyRemoteOps twice with
\* the same list leaves the store, the tombstone flags and the text as calling
\* it once does.
ApplyTwiceAsOnce ==
    \A r \in Replicas, names \in OpNameLists :
        LET once == ApplyRemoteOps(content[r], deleted, OpsFor(names, r))
            twice == ApplyRemoteOps(once.content, once.heap, OpsFor(names, r))
        IN /\ twice.content = once.content
           /\ twice.heap = once.heap
           /\ GetText(twice.content, twice.heap) = GetText(once.content, once.heap)

\* C5 (MergeSpec): a fresh replica fed [A, B] and a fresh replica fed [B, A]
\* show the same text, for any two operations A and B.
Commutativity ==
    \A A, B \in OpNames :
        (received["r1"] = <<A, B>> /\ received["r2"] = <<B, A>>) => Text("r1") = Text("r2")

\* C6 (MergeSpec): a replica that was fed the delete of a character before its
\* insert holds the character tombstoned once the insert has been applied too,
\* as does a replica that was fed the insert first and the delete second.
DeleteBeforeInsertConverges ==
    \A r \in Replicas, id \in IdUniverse :
        (FirstAt(received[r], InsertOf(id)) > 0 /\ FirstAt(received[r], DeleteOf(id)) > 0)
        => Tombstoned(r, id)

\* The text with `text` put in at offset `position`.
SpliceText(t, position, text) ==
    SubSeq(t, 1, position) \o text \o SubSeq(t, position + 1, Len(t))

\* The texts insert() is tried with in every state.
TextsTyped == Texts \cup {<<"x">>, <<"x", "y", "z">>}

\* C7 (SpecOnline): in every reachable state of every replica, insert(0, text)
\* followed at once by undo() gives back the text there was before the insert.
UndoFidelity ==
    \A c \in Clients, text \in TextsTyped :
        LET ins == Insert(Doc(c), deleted, 0, text, "local")
            und == Undo(ins.doc, ins.heap)
        IN GetText(und.doc.content, und.heap) = Text(c)

\* An editor that holds a character of the other editor typed at position 0 and
\* undid it, leaving a tombstone and a non-empty text.
UndoFidelityWitness ==
    \E c \in Clients :
        /\ redoStack[c] # <<>>
        /\ redoStack[c][Len(redoStack[c])].type = "insert"
        /\ redoStack[c][Len(redoStack[c])].position = 0
        /\ \E k \in 1..Len(content[c]) : content[c][k].clientId # c
        /\ \E k \in 1..Len(content[c]) : deleted[content[c][k]]
        /\ Text(c) # <<>>

\* C8 (Spec): undo() and redo() of an editor change the deleted flag only of
\* characters that editor inserted, or that the delete entry being undone or
\* redone recorded.
UndoIsolation ==
    \A c \in Clients :
        LET und == Undo(Doc(c), deleted)
            red == Redo(Doc(c), deleted)
            undone == IF undoStack[c] = <<>> THEN {}
                      ELSE Range(undoStack[c][Len(undoStack[c])].chars)
            redone == IF redoStack[c] = <<>> THEN {}
                      ELSE Range(redoStack[c][Len(redoStack[c])].chars)
        IN \A ch \in DOMAIN deleted :
              /\ und.heap[ch] # deleted[ch] => (ch.clientId = c \/ ch \in undone)
              /\ red.heap[ch] # deleted[ch] => (ch.clientId = c \/ ch \in redone)

\* C9 (Spec): insert(position, text) with 0 <= position <= length of the text
\* gives the previous text with `text` spliced in at offset position.
InsertAtVisiblePosition ==
    \A c \in Clients, text \in TextsTyped :
        \A position \in 0..TextLength(c) :
            LET ins == Insert(Doc(c), deleted, position, text, "local")
            IN GetText(ins.doc.content, ins.heap) = SpliceText(Text(c), position, text)

\* C10 (SpecOnline): delete(position, length) tombstones exactly the visible
\* characters at offsets position .. position+length-1 (those that exist),
\* changes no other flag and not the store order, and returns one delete
\* operation for each of them, in order, and nothing else.
DeleteTombstonesRange ==
    \A c \in Clients :
        \A position \in 0..(TextLength(c) + 1), length \in 0..(TextLength(c) + 1) :
            LET vis == Visible(content[c], deleted)
                last == IF position + length < Len(vis) THEN position + length ELSE Len(vis)
                hit == SubSeq(vis, position + 1, last)
                del == Delete(Doc(c), deleted, position, length, "local")
            IN /\ del.doc.content = content[c]
               /\ del.heap = [ch \in DOMAIN deleted |-> deleted[ch] \/ ch \in Range(hit)]
               /\ del.ops = [k \in 1..Len(hit) |->
                                [type |-> "delete", char |-> hit[k], origin |-> "local"]]

\* An editor deleted text behind the start and still shows text.
DeleteTombstonesRangeWitness ==
    \E c \in Clients :
        /\ undoStack[c] # <<>>
        /\ undoStack[c][Len(undoStack[c])].type = "delete"
        /\ undoStack[c][Len(undoStack[c])].position >= 1
        /\ undoStack[c][Len(undoStack[c])].chars # <<>>
        /\ \A k \in 1..Len(undoStack[c][Len(undoStack[c])].chars) :
               deleted[undoStack[c][Len(undoStack[c])].chars[k]]
        /\ Text(c) # <<>>

(***************************************************************************)
(* Properties of the server                                                *)
(***************************************************************************)
OpenSessions == {s \in Sessions : sockets[s].readyState = "OPEN"}

\* The sessions attached to the record the registry holds for docId.
Attached(sv, docId) ==
    IF docId = "" \/ sv.documents[docId] = 0 THEN {}
    ELSE sv.managers[sv.documents[docId]].clients

UpdateMessageOf(docId, items) == Message("update", docId, items, "", NoStats)

\* C11 (ServerSpec): when an update of session S brings something new to the
\* document S has joined, every other attached open session is sent exactly
\* that update, and S and the sessions that are not attached are sent nothing;
\* and SimulatedConnection.broadcast starts no delivery to its own sender.
BroadcastExclusion ==
    /\ \A s \in OpenSessions : \A update \in UpdatesOf(s) :
          LET docId == sockets[s].currentDoc
              after == HandleUpdate(ServerState, s, docId, update)
              new == update.items \ managers[documents[docId]].doc
          IN (docId # "" /\ documents[docId] # 0 /\ update.valid /\ new # {}) =>
                \A t \in Sessions :
                    after.sent[t] =
                        IF t # s /\ t \in Attached(ServerState, docId) /\ t \in OpenSessions
                        THEN <<UpdateMessageOf(docId, new)>>
                        ELSE <<>>
    /\ \A c \in Clients :
          \A e \in BagToSet(Broadcast(EmptyBag, c, OpsMessage(c, <<>>))) : e.to # c

\* C11: an update of one of two attached open sessions was just broadcast.
BroadcastExclusionWitness ==
    \E s \in OpenSessions, t \in OpenSessions :
        /\ s # t
        /\ sockets[s].currentDoc # ""
        /\ {s, t} \subseteq Attached([ServerState EXCEPT !.sent = sent], sockets[s].currentDoc)
        /\ sent[s] = <<>>
        /\ Len(sent[t]) = 1
        /\ sent[t][1].type = "update"
        /\ sent[t][1].update = {<<s, 1>>}

NotInDocument == Message("error", "", {}, "Not in document", NoStats)

\* C12 (ServerSpec): an update message whose docId is not the document the
\* sending session has joined (or from a session that joined none) sends the
\* error "Not in document" to that session and changes nothing else: no
\* record, no canonical state, no started write, no other outbox, no socket.
UpdateOutsideDocument ==
    \A s \in OpenSessions, docId \in DocIdFields :
        \A update \in UpdatesOf(s) :
            (sockets[s].currentDoc = "" \/ sockets[s].currentDoc # docId) =>
                HandleUpdate(ServerState, s, docId, update)
                    = [ServerState EXCEPT !.sent[s] = <<NotInDocument>>]

\* C12: a session attached to one document, next to a record that holds
\* operations, was just answered "Not in document".
UpdateOutsideDocumentWitness ==
    \E s \in OpenSessions :
        /\ sent[s] = <<NotInDocument>>
        /\ sockets[s].currentDoc # ""
        /\ \E d \in DocIds : d # sockets[s].currentDoc /\ documents[d] # 0

SyncMessageOf(docId, state) == Message("sync", docId, state, "", NoStats)

\* C13 (ServerSpec): handling a join with a docId leaves the session attached
\* to the record the registry then holds for docId (the record it held
\* before, or a new one if it held none), and sends the session one sync
\* message with that record's whole state followed by one joined message
\* whose stats count the attached sessions, the joining one included.
JoinAttachesAndSyncs ==
    \A s \in OpenSessions, docId \in DocIds :
        LET after == HandleJoin(ServerState, s, docId)
            m == after.documents[docId]
            record == after.managers[m]
        IN /\ m # 0
           /\ s \in record.clients
           /\ sockets[s].currentDoc # docId /\ documents[docId] # 0 =>
                  /\ m = documents[docId]
                  /\ record.doc = managers[m].doc
                  /\ record.clients = managers[m].clients \cup {s}
           /\ documents[docId] = 0 => m = Len(managers) + 1 /\ record.clients = {s}
           /\ after.sent[s] =
                  <<SyncMessageOf(docId, record.doc),
                    Message("joined", docId, {}, "",
                            [docId |-> docId,
                             clients |-> Cardinality(record.clients),
                             textLength |-> Cardinality(record.doc)])>>

\* C13: a second session just joined a document that holds operations.
JoinAttachesAndSyncsWitness ==
    \E s \in OpenSessions :
        /\ Len(sent[s]) = 2
        /\ sent[s][1].type = "sync"
        /\ sent[s][1].update # {}
        /\ sent[s][2].type = "joined"
        /\ sent[s][2].stats.clients = 2

NoPendingFor(docId) == \A f \in BagToSet(pending) : f.docId # docId

\* C14 (ServerSpec): once no file-system call of the document is pending, an
\* open session attached to the document's record holds, from the sync and
\* update messages sent to it and from what it authored itself, every
\* operation the canonical file held when it joined.
PersistedStateReachesJoiner ==
    \A s \in OpenSessions :
        LET docId == sockets[s].currentDoc
        IN (docId # "" /\ s \in Attached(ServerState, docId) /\ NoPendingFor(docId)) =>
               sockets[s].fileAtJoin \subseteq delivered[s] \cup {<<s, 1>>}

(***************************************************************************)
(* Properties of the saved editor state                                    *)
(***************************************************************************)
\* new SimpleYDoc(clientId)
NewSimpleYDoc(c) ==
    [clientId |-> c, content |-> <<>>, vectorClock |-> [o \in Clients |-> 0],
     undoStack |-> <<>>, redoStack |-> <<>>]

\* getState()
GetState(doc) ==
    [content |-> doc.content, vectorClock |-> doc.vectorClock, clientId |-> doc.clientId]

\* The object JSON.parse makes of a character object written by JSON.stringify.
Parsed(ch) == [ch EXCEPT !.obj = 1]

\* JSON.parse(JSON.stringify(state)): new objects with the fields of the old
\* ones, the deleted flag as it was when the state was written.
JsonCopy(state, heap) ==
    LET chars == {state.content[k] : k \in 1..Len(state.content)}
    IN [state |-> [state EXCEPT !.content = [k \in 1..Len(@) |-> Parsed(@[k])]],
        heap |-> [x \in DOMAIN heap \cup {Parsed(ch) : ch \in chars} |->
                     IF x \in DOMAIN heap THEN heap[x]
                     ELSE heap[CHOOSE ch \in chars : Parsed(ch) = x]]]

SetStateContentOnly(doc, state) ==
    [doc EXCEPT !.content = state.content]

\* setState(state)
SetState(doc, state) ==
    [doc EXCEPT !.content = state.content, !.vectorClock = state.vectorClock]

\* C15 (SpecOnline): in every reachable state of every editor, the state
\* written by getState() and JSON and loaded by setState() into a new
\* SimpleYDoc of the same client shows the same text, and every insert on the
\* reloaded replica (at the start and at the end of the text) creates
\* characters whose ids are new to its store and differ from each other.
PersistenceRoundTrip ==
    \A c \in Clients :
        LET saved == JsonCopy(GetState(Doc(c)), deleted)
            reloaded == SetState(NewSimpleYDoc(c), saved.state)
        IN /\ GetText(reloaded.content, saved.heap) = Text(c)
           /\ \A text \in Texts :
                 \A position \in {0, TextLength(c)} :
                     LET ops == Insert(reloaded, saved.heap, position, text, "local").ops
                     IN \A k \in 1..Len(ops) :
                            /\ CharId(ops[k].char) \notin IdSet(reloaded.content)
                            /\ \A j \in 1..Len(ops) :
                                   j # k => CharId(ops[j].char) # CharId(ops[k].char)

\* C15: an editor whose store holds its own characters, characters of the
\* other editor and a tombstone.
PersistenceRoundTripWitness ==
    \E c \in Clients :
        /\ \E k \in 1..Len(content[c]) : content[c][k].clientId = c
        /\ \E k \in 1..Len(content[c]) : content[c][k].clientId # c
        /\ \E k \in 1..Len(content[c]) : deleted[content[c][k]]
        /\ Text(c) # <<>>

(***************************************************************************)
(* Properties of the server, continued                                     *)
(***************************************************************************)
\* The records the registry holds.
Registered == {m \in 1..Len(managers) : documents[managers[m].docId] = m}

\* C16 (ServerSpec): removeClient on a registered record takes the session
\* out of the attached set; if the set is then empty the snapshot timer is
\* stopped, one write of the record's current state to the canonical file is
\* started and the registry no longer holds the record; otherwise the
\* registry, the timer and the started file-system calls are as before.
DetachCleansUpWhenEmpty ==
    \A m \in Registered :
        \A s \in managers[m].clients :
            LET after == RemoveClient(ServerState, m, s)
                docId == managers[m].docId
            IN /\ after.managers[m].clients = managers[m].clients \ {s}
               /\ after.managers[m].doc = managers[m].doc
               /\ IF managers[m].clients = {s}
                  THEN /\ ~after.managers[m].snapshotInterval
                       /\ after.pending = pending (+)
                              SetToBag({FileOp("writeFile", m, docId, managers[m].doc, 0)})
                       /\ after.documents = [documents EXCEPT ![docId] = 0]
                  ELSE /\ after.managers[m].snapshotInterval = managers[m].snapshotInterval
                       /\ after.pending = pending
                       /\ after.documents = documents

\* C16: the last session of a record that holds operations has closed, and
\* another record still has a session attached.
DetachCleansUpWhenEmptyWitness ==
    /\ \E m \in 1..Len(managers) :
          /\ managers[m].clients = {}
          /\ managers[m].doc # {}
          /\ ~managers[m].snapshotInterval
          /\ m \notin Registered
    /\ \E m \in Registered : managers[m].clients # {}

\* C17 (AdminSpec): once the DELETE request for docId was answered, no
\* file-system call of docId is pending and no socket closed by it still
\* awaits its close event, neither the canonical file nor a snapshot file of
\* docId exists and the registry holds no record for docId.
DeleteRemovesFiles ==
    \A docId \in responded :
        (/\ NoPendingFor(docId)
         /\ \A s \in Sessions : ~(sockets[s].readyState = "CLOSING"
                                   /\ sockets[s].currentDoc = docId)) =>
            /\ ~files[docId].exists
            /\ \A f \in snapshotFiles : f.docId # docId
            /\ documents[docId] = 0

\* C18 (HeartbeatSpec): at a heartbeat tick every open socket that has not
\* answered the previous probe is terminated and every socket that has
\* answered stays as it is but for the new probe; and the close event of a
\* socket takes the session out of the record registered for the document
\* it joined, with the cleanup of that record if it was the last session.
LivenessEviction ==
    [][/\ Heartbeat =>
              \A s \in OpenSessions :
                  IF sockets[s].isAlive
                  THEN sockets'[s] = [sockets[s] EXCEPT !.isAlive = FALSE]
                  ELSE /\ sockets'[s].readyState = "CLOSING"
                       /\ sockets'[s].closedBy = "heartbeat"
       /\ \A s \in Sessions :
              (CloseEvent(s) /\ sockets[s].closedBy = "heartbeat"
                             /\ sockets[s].currentDoc # "") =>
                  LET docId == sockets[s].currentDoc
                      m == documents[docId]
                  IN /\ sockets'[s].readyState = "CLOSED"
                     /\ m # 0 => /\ s \notin managers'[m].clients
                                 /\ managers[m].clients = {s} =>
                                        /\ documents'[docId] = 0
                                        /\ ~managers'[m].snapshotInterval
                                        /\ pending' = pending (+) SetToBag(
                                               {FileOp("writeFile", m, docId,
                                                       managers[m].doc, 0)})
                                 /\ managers[m].clients # {s} => documents'[docId] = m
                     /\ \A d \in DocIds : s \notin Attached([documents |-> documents', managers |-> managers'], d)
      ]_vars

\* C18: a session that was the last of its document was terminated by the
\* heartbeat and its close event has run the cleanup.
LivenessEvictionWitness ==
    \E s \in Sessions :
        /\ sockets[s].readyState = "CLOSED"
        /\ sockets[s].closedBy = "heartbeat"
        /\ sockets[s].currentDoc # ""
        /\ documents[sockets[s].currentDoc] = 0
        /\ \E m \in 1..Len(managers) :
              /\ managers[m].docId = sockets[s].currentDoc
              /\ ~managers[m].snapshotInterval

\* The documents whose registered record has session s attached.
AttachedTo(sv, s) == {d \in DocIds : s \in Attached(sv, d)}

\* C19 (ServerSpec): in every reachable state each session is attached to the
\* registered record of at most one document, the one its currentDoc names;
\* and after a join to docId the session is attached to the record of docId
\* only, the record of the document it had joined before no longer holds it.
OneDocumentPerSession ==
    /\ \A s \in Sessions :
          /\ Cardinality(AttachedTo(ServerState, s)) <= 1
          /\ AttachedTo(ServerState, s) \subseteq {sockets[s].currentDoc}
    /\ \A s \in OpenSessions, docId \in DocIds :
          LET after == HandleJoin(ServerState, s, docId)
              old == sockets[s].currentDoc
          IN /\ AttachedTo(after, s) = {docId}
             /\ (old # "" /\ old # docId /\ documents[old] # 0) =>
                    s \notin after.managers[documents[old]].clients

\* C19: the only session that ever connected joined d1 and then d2: the
\* record of d1 was left and cleaned up, the record of d2 holds the session.
OneDocumentPerSessionWitness ==
    \E s \in OpenSessions :
        /\ \A t \in Sessions \ {s} : sockets[t].readyState = "NONE"
        /\ Len(managers) = 2
        /\ managers[1].docId # managers[2].docId
        /\ managers[1].clients = {}
        /\ managers[2].clients = {s}
        /\ sockets[s].currentDoc = managers[2].docId

NoWritePendingFor(docId) ==
    \A f \in BagToSet(pending) : ~(f.op = "writeFile" /\ f.docId = docId)

\* C20 (ServerSpec): once every started write of a document's canonical file
\* has completed, the file holds the state that the most recently started
\* write carried.
LastWriteWins ==
    \A docId \in DocIds :
        (lastWrite[docId].exists /\ NoWritePendingFor(docId)) =>
            files[docId] = lastWrite[docId]

\* A handler that left the registry, the records with their attached sets
\* and canonical states, the sockets, the files and the started calls alone.
OnlyAnswered(after) ==
    /\ after.documents = documents
    /\ after.managers = managers
    /\ after.sockets = sockets
    /\ after.files = files
    /\ after.snapshotFiles = snapshotFiles
    /\ after.pending = pending

\* The frames of a protocol error: a join without docId, an unknown type.
ProtocolErrors ==
    {[type |-> "join", docId |-> "", update |-> {}]}
        \cup {[type |-> "hello", docId |-> d, update |-> {}] : d \in DocIdFields}

\* C21 (RequestSpec): in every reachable state, for every open session s, a
\* join frame without docId and a frame of an unknown type are each answered
\* with exactly one message of type 'error' to s and nothing to any other
\* session, and change no record, attached set, canonical state or socket.
ProtocolErrorReported ==
    \A s \in OpenSessions : \A message \in ProtocolErrors :
        LET after == OnMessage(ServerState, s, message)
        IN /\ Len(after.sent[s]) = 1
           /\ after.sent[s][1].type = "error"
           /\ \A t \in Sessions \ {s} : after.sent[t] = <<>>
           /\ OnlyAnswered(after)

\* C22 (ShutdownSpec): once SIGTERM was received the process eventually
\* exits, also in the behaviours in which a write that was started never
\* completes.
ShutdownTerminates == (process # "running") ~> (process \in Exited)

\* Payloads whose bytes do not decode, whatever they were meant to carry.
Malformed == {[valid |-> FALSE, items |-> i] : i \in SUBSET Items}

\* The sessions that are open and attached to the registered record of docId.
Members(docId) ==
    {s \in OpenSessions : sockets[s].currentDoc = docId /\ documents[docId] # 0}

DocumentNotFound == Message("error", "", {}, "Document not found", NoStats)

\* C24 (RequestSpec): in every reachable state, for every docId the registry
\* holds no record for, the statistics lookup and the DELETE request answer
\* 404 "Document not found" and a sync-request of an open session is
\* answered with the error "Document not found" to that session; each leaves
\* the registry, the records with their attached sets, the sockets, the
\* files and the started file-system calls as they were, so no record is
\* created.
NotFoundChangesNothing ==
    \A d \in DocIds :
        documents[d] = 0 =>
            /\ GetDocumentInfo(ServerState, d) = [ServerState EXCEPT !.response = NotFound]
            /\ DeleteDocumentRequest(ServerState, d)
                   = [ServerState EXCEPT !.response = NotFound]
            /\ \A s \in OpenSessions :
                   HandleSyncRequest(ServerState, s, d)
                       = [ServerState EXCEPT !.sent[s] = <<DocumentNotFound>>]

\* C24: a request for a document without a record was just answered 404
\* while the record of another document has a session attached.
NotFoundChangesNothingWitness ==
    /\ response = NotFound
    /\ \E d \in DocIds : Members(d) # {}
    /\ \E d \in DocIds : documents[d] = 0

\* The clocks of the characters of origin o in the store of editor c.
ClocksOf(c, o) ==
    {content[c][k].clock : k \in {n \in 1..Len(content[c]) : content[c][n].clientId = o}}

\* C25 (SpecOnline): in every reachable state no two characters of a store
\* share an id, and the characters an editor created carry the clocks 1, 2,
\* ... up to its own clock table entry, each once: every insert, typed or
\* issued by redo, gave each unit the entry plus one and stored it back.
CharacterIdentity ==
    \A c \in Clients :
        /\ \A i \in 1..Len(content[c]), j \in 1..Len(content[c]) :
               i # j => CharId(content[c][i]) # CharId(content[c][j])
        /\ ClocksOf(c, c) = 1..vectorClock[c][c]
        /\ \A o \in Clients \ {c} : ClocksOf(c, o) \subseteq 1..vectorClock[o][o]

\* C25: an editor that inserted four units, the last two by redo, holds
\* characters of the other editor as well.
CharacterIdentityWitness ==
    \E c \in Clients :
        /\ vectorClock[c][c] = 4
        /\ redoStack[c] = <<>> /\ Len(undoStack[c]) = 1
        /\ \E o \in Clients \ {c} : ClocksOf(c, o) # {}

\* The step is a local delete of editor c: one more edit, a delete entry on top.
LocalDeleteStep(c) ==
    /\ edits' = edits + 1
    /\ Len(undoStack'[c]) = Len(undoStack[c]) + 1
    /\ undoStack'[c][Len(undoStack'[c])].type = "delete"

\* The step is an undo by editor c of an insert entry.
UndoInsertStep(c) ==
    /\ undoRedoSteps' = undoRedoSteps + 1
    /\ Len(undoStack'[c]) = Len(undoStack[c]) - 1
    /\ undoStack[c][Len(undoStack[c])].type = "insert"

\* C26 (SpecOnline): in every step, whichever of insert, delete, undo, redo
\* and applyRemoteOps it runs, every character object of a store is still in
\* that store afterwards, so the set of ids of a store only grows; and a
\* local delete or an undo of an insert leaves the store's array as it was
\* and only sets deleted flags, clearing none.
StoreOnlyGrows ==
    [][\A c \in Clients :
           /\ Range(content[c]) \subseteq Range(content'[c])
           /\ IdSet(content[c]) \subseteq IdSet(content'[c])
           /\ (LocalDeleteStep(c) \/ UndoInsertStep(c)) =>
                  /\ content'[c] = content[c]
                  /\ DOMAIN deleted' = DOMAIN deleted
                  /\ \A ch \in DOMAIN deleted : deleted[ch] => deleted'[ch]]_vars

\* C26: a store still holds, tombstoned, the characters of an insert that
\* was undone after the undo of a delete.
StoreOnlyGrowsWitness ==
    \E c \in Clients :
        /\ Len(redoStack[c]) = 2
        /\ redoStack[c][1].type = "delete" /\ redoStack[c][2].type = "insert"
        /\ Len(content[c]) >= 2
        /\ \A k \in 1..Len(content[c]) : deleted[content[c][k]]

\* The states editor c can be in when it undoes the insert that led to
\* `ins`: right after the insert, or after one message in flight for c was
\* merged in between.
Between(c, ins) ==
    {[doc |-> ins.doc, heap |-> ins.heap]}
        \cup {LET r == ApplyRemoteOps(ins.doc.content, ins.heap, e.message.ops)
              IN [doc |-> [ins.doc EXCEPT !.content = r.content], heap |-> r.heap] :
              e \in {f \in BagToSet(inflight) :
                        f.to = c /\ f.message.type = "ops" /\ f.message.clientId # c}}

\* C27 (SpecOnline): in every reachable state, for every position of the
\* visible text, an insert followed by undo(), at once or after a remote
\* message was merged in between, tombstones exactly the characters that
\* insert created; and undo() of a delete entry clears the flag of exactly
\* the characters the entry recorded and changes no other flag.
UndoRevertsItsInsert ==
    \A c \in Clients :
        /\ \A text \in Texts, position \in 0..TextLength(c) :
               LET ins == Insert(Doc(c), deleted, position, text, "local")
                   created == {ins.ops[k].char : k \in 1..Len(ins.ops)}
               IN \A mid \in Between(c, ins) :
                      LET und == Undo(mid.doc, mid.heap)
                      IN {ch \in DOMAIN mid.heap : und.heap[ch] # mid.heap[ch]} = created
        /\ (undoStack[c] # <<>> /\ undoStack[c][Len(undoStack[c])].type = "delete") =>
               LET und == Undo(Doc(c), deleted)
                   recorded == Range(undoStack[c][Len(undoStack[c])].chars)
               IN \A ch \in DOMAIN deleted :
                      und.heap[ch] = IF ch \in recorded THEN FALSE ELSE deleted[ch]

\* C28 (SpecOnline): in every reachable state of every editor, undo() on a
\* non-empty undo stack removes its top entry and pushes that entry, marked
\* isRedo, on the redo stack; redo() on a non-empty redo stack removes its
\* top entry and pushes it on the undo stack; either way the two sizes add
\* up to what they did; and undo() on an empty undo stack and redo() on an
\* empty redo stack change neither the document nor any deleted flag.
StackTransfer ==
    \A c \in Clients :
        LET und == Undo(Doc(c), deleted)
            red == Redo(Doc(c), deleted)
            nu == Len(undoStack[c])
            nr == Len(redoStack[c])
        IN /\ IF nu = 0
              THEN und = [doc |-> Doc(c), heap |-> deleted]
              ELSE /\ und.doc.undoStack = Pop(undoStack[c])
                   /\ und.doc.redoStack
                          = Append(redoStack[c], [undoStack[c][nu] EXCEPT !.isRedo = TRUE])
                   /\ Len(und.doc.undoStack) + Len(und.doc.redoStack) = nu + nr
           /\ IF nr = 0
              THEN red = [doc |-> Doc(c), heap |-> deleted]
              ELSE /\ red.doc.redoStack = Pop(redoStack[c])
                   /\ red.doc.undoStack = Append(undoStack[c], redoStack[c][nr])
                   /\ Len(red.doc.undoStack) + Len(red.doc.redoStack) = nu + nr

\* C28: an editor that typed, deleted and undid the delete: an insert entry
\* on the undo stack, the delete entry on the redo stack.
StackTransferWitness ==
    \E c \in Clients :
        /\ Len(undoStack[c]) = 1 /\ undoStack[c][1].type = "insert"
        /\ Len(redoStack[c]) = 1 /\ redoStack[c][1].type = "delete"
        /\ redoStack[c][1].isRedo

\* C29 (SpecOnline): in every reachable state of every editor whose undo
\* stack is not empty, undo() followed at once by redo() gives the text
\* there was before the undo, whether the entry is an insert or a delete.
UndoRedoRestoresText ==
    \A c \in Clients :
        undoStack[c] # <<>> =>
            LET und == Undo(Doc(c), deleted)
                red == Redo(und.doc, und.heap)
            IN GetText(red.doc.content, red.heap) = Text(c)

\* Editor c pushed one entry on its undo stack and emptied its redo stack.
Recorded(c) ==
    /\ Len(undoStack'[c]) = Len(undoStack[c]) + 1
    /\ SubSeq(undoStack'[c], 1, Len(undoStack[c])) = undoStack[c]
    /\ redoStack'[c] = <<>>

\* Editor c moved the top entry of one stack to the other and did nothing
\* else to its stacks, or had nothing to move.
Moved(c) ==
    \/ /\ undoStack[c] # <<>>
       /\ undoStack'[c] = Pop(undoStack[c])
       /\ redoStack'[c] = Append(redoStack[c],
                                [undoStack[c][Len(undoStack[c])] EXCEPT !.isRedo = TRUE])
    \/ /\ redoStack[c] # <<>>
       /\ redoStack'[c] = Pop(redoStack[c])
       /\ undoStack'[c] = Append(undoStack[c], redoStack[c][Len(redoStack[c])])
    \/ undoStack'[c] = undoStack[c] /\ redoStack'[c] = redoStack[c]

Untouched(c) ==
    /\ undoStack'[c] = undoStack[c]
    /\ redoStack'[c] = redoStack[c]

\* C30 (SpecOnline): a step that is a local insert or delete pushes exactly
\* one entry on the undo stack of the editor that made it and empties its
\* redo stack; a step that is an undo or a redo only moves the top entry
\* between the two stacks of that editor, the delete or insert it issues
\* pushing nothing and emptying nothing; every other step, the merge of
\* remote operations, leaves both stacks of every editor and its own clock
\* table entry as they were.
LedgerKept ==
    [][IF edits' # edits
       THEN \E c \in Clients :
                Recorded(c) /\ \A d \in Clients \ {c} : Untouched(d)
       ELSE IF undoRedoSteps' # undoRedoSteps
       THEN \E c \in Clients :
                Moved(c) /\ \A d \in Clients \ {c} : Untouched(d)
       ELSE \A c \in Clients :
                Untouched(c) /\ vectorClock'[c][c] = vectorClock[c][c]]_vars

\* C30: an editor whose only insert was undone and redone: one entry,
\* marked isRedo, on the undo stack and four characters of its own.
LedgerKeptWitness ==
    \E c \in Clients :
        /\ Len(undoStack[c]) = 1
        /\ undoStack[c][1].type = "insert" /\ undoStack[c][1].isRedo
        /\ redoStack[c] = <<>>
        /\ Len(content[c]) = 4
        /\ \A k \in 1..Len(content[c]) : content[c][k].clientId = c

\* The store is in the order of (clientId, clock).
Sorted(cont) ==
    \A i \in 1..Len(cont), j \in 1..Len(cont) : i < j => Compare(cont[i], cont[j]) < 0

\* The lists of operations in flight to editor c from another editor.
Incoming(c) ==
    {e.message.ops : e \in {f \in BagToSet(inflight) :
                               f.to = c /\ f.message.type = "ops" /\ f.message.clientId # c}}

\* ops holds an insert of a character whose id is not in cont.
BringsInsert(cont, ops) ==
    \E k \in 1..Len(ops) : ops[k].type = "insert" /\ ~HasId(cont, CharId(ops[k].char))

\* C31 (SpecOnline): in every reachable state, for every editor and every
\* list of operations in flight to it that holds an insert of an id the store
\* lacks, the store after applyRemoteOps is in the order of (clientId, clock)
\* and holds the old ids and the new ones; two editors whose stores hold the
\* same ids after such merges hold them in the same order; and
\* applyRemoteOps of an insert whose id is in the store already changes
\* neither the store nor any deleted flag.
TotalOrderPlacement ==
    \A c \in Clients :
        /\ \A ops \in Incoming(c) :
               BringsInsert(content[c], ops) =>
                   LET r == ApplyRemoteOps(content[c], deleted, ops)
                   IN /\ Sorted(r.content)
                      /\ IdSet(content[c]) \subseteq IdSet(r.content)
                      /\ \A d \in Clients \ {c} : \A ops2 \in Incoming(d) :
                             LET r2 == ApplyRemoteOps(content[d], deleted, ops2)
                             IN (/\ BringsInsert(content[d], ops2)
                                 /\ IdSet(r2.content) = IdSet(r.content)) =>
                                    [k \in 1..Len(r.content) |-> CharId(r.content[k])]
                                      = [k \in 1..Len(r2.content) |-> CharId(r2.content[k])]
        /\ \A k \in 1..Len(content[c]) :
               ApplyRemoteOps(content[c], deleted,
                              <<[type |-> "insert", char |-> content[c][k],
                                 origin |-> "local"]>>)
                   = [content |-> content[c], heap |-> deleted]

\* C31: an editor redid its insert in front of its tombstones and then
\* merged the other editor's insert: its six characters are in order, the
\* tombstoned ones first.
TotalOrderPlacementWitness ==
    \E c \in Clients :
        /\ Len(content[c]) = 6
        /\ Sorted(content[c])
        /\ deleted[content[c][1]] /\ ~deleted[content[c][3]]
        /\ content[c][1].clientId = c /\ content[c][6].clientId # c

\* C32 (SpecOnline): in every reachable state, for every editor and every
\* origin that has a character in the editor's store, the editor's clock
\* table entry for that origin is the highest clock of the characters of
\* that origin in the store.
OriginClockTable ==
    \A c \in Clients, o \in Clients :
        ClocksOf(c, o) # {} =>
            /\ vectorClock[c][o] \in ClocksOf(c, o)
            /\ \A n \in ClocksOf(c, o) : n <= vectorClock[c][o]

\* C33 (ServerSpec): in every reachable state, the completion of a pending
\* load merges the canonical file, if it exists, into the record without a
\* call of saveState or broadcastUpdate: no write is started, no file
\* changes and nothing is sent to any session; and an update of an attached
\* session that brings something new calls saveState once and then
\* broadcastUpdate once, starting exactly one write, which carries the merged
\* state, and sending the new operations once to every other attached open
\* session, while an update that brings nothing new calls neither.
LoadIsSilent ==
    /\ \A f \in BagToSet(pending) :
           f.op = "loadState" =>
               LET before == [ServerState EXCEPT !.pending = @ (-) SetToBag({f})]
                   after == Completed(before, f)
                   loaded == IF files[f.docId].exists THEN files[f.docId].data ELSE {}
               IN after = [before EXCEPT !.managers[f.m].doc = @ \cup loaded]
    /\ \A d \in DocIds : \A s \in Members(d) :
           \A update \in {u \in UpdatesOf(s) : u.valid} :
               LET m == documents[d]
                   new == update.items \ managers[m].doc
                   after == HandleUpdate(ServerState, s, d, update)
               IN IF new = {} THEN after = ServerState
                  ELSE /\ after.calls = <<"saveState", "broadcastUpdate">>
                       /\ after.managers[m].doc = managers[m].doc \cup update.items
                       /\ after.pending = pending (+) SetToBag(
                              {FileOp("writeFile", m, d, after.managers[m].doc, 0)})
                       /\ \A t \in Sessions :
                              after.sent[t] =
                                  IF t \in (managers[m].clients \cap OpenSessions) \ {s}
                                  THEN <<UpdateMessageOf(d, new)>>
                                  ELSE <<>>

\* C33: a load has just merged an operation of another session into the
\* record a session is attached to; nothing was sent, and nothing is pending.
LoadIsSilentWitness ==
    \E d \in DocIds : \E s \in Members(d) :
        /\ \E t \in Sessions \ {s} : <<t, 1>> \in managers[documents[d]].doc
        /\ delivered[s] = {}
        /\ sent = NothingSent
        /\ pending = EmptyBag
        /\ files[d].exists

(***************************************************************************)
(* Snapshot retention.                                                     *)
(***************************************************************************)

\* The snapshot files of docId in the directory of sv.
SnapshotsOf(sv, docId) == {g \in sv.snapshotFiles : g.docId = docId}

\* A pass of saveSnapshot that has written its file and is about to list
\* and prune the directory.
PrunePasses == {f \in BagToSet(pending) : f.op = "pruneSnapshots"}

\* C34 (SnapshotSpec): when a snapshot pass of a document completes, at most
\* KeptSnapshots snapshot files of the document remain, they are the newest
\* ones, and no canonical file and no snapshot file of another document has
\* been removed.
SnapshotRetention ==
    \A f \in PrunePasses :
        LET after == Completed(ServerState, f)
            kept == SnapshotsOf(after, f.docId)
            had == SnapshotsOf(ServerState, f.docId)
        IN /\ Cardinality(kept) <= KeptSnapshots
           /\ kept \subseteq had
           /\ \A g \in had \ kept, h \in kept : g.ts < h.ts
           /\ after.files = files
           /\ \A d \in AllDocIds \ {f.docId} :
                  SnapshotsOf(after, d) = SnapshotsOf(ServerState, d)

\* The parts of C34 about the document's own snapshot files.
OwnSnapshotsPruned ==
    \A f \in PrunePasses :
        LET after == Completed(ServerState, f)
            kept == SnapshotsOf(after, f.docId)
            had == SnapshotsOf(ServerState, f.docId)
        IN /\ Cardinality(kept) <= KeptSnapshots
           /\ kept \subseteq had
           /\ \A g \in had \ kept, h \in kept : g.ts < h.ts

(***************************************************************************)
(* The offline queue.                                                      *)
(***************************************************************************)

\* The step is an edit of c: handleTextChange of c called send().
EditBy(c) == edits' = edits + 1 /\ undoStack'[c] # undoStack[c]

\* The timers the step has started for message, one entry per receiver.
StartedFor(d, message) ==
    CopiesIn([to |-> d, message |-> message], inflight')
        - CopiesIn([to |-> d, message |-> message], inflight)

\* The places of message in queue.
PlacesIn(queue, message) == {k \in 1..Len(queue) : queue[k] = message}

\* The messages some timer carries before or after the step.
Carried == {e.message : e \in BagToSet(inflight) \cup BagToSet(inflight')}

\* What one step of the connections does to the queues and the timers.
OfflineQueueStep ==
    \A c \in Clients :
        /\ connected[c] => messageQueue[c] = <<>>
        /\ EditBy(c) /\ ~connected[c] =>
              /\ inflight' = inflight
              /\ Len(messageQueue'[c]) = Len(messageQueue[c]) + 1
              /\ SubSeq(messageQueue'[c], 1, Len(messageQueue[c])) = messageQueue[c]
              /\ LET message == messageQueue'[c][Len(messageQueue'[c])]
                 IN message.type = "ops" /\ message.clientId = c /\ message.ops # <<>>
        /\ EditBy(c) /\ connected[c] =>
              /\ messageQueue' = messageQueue
              /\ IF Receivers(c) = {} THEN inflight' = inflight
                 ELSE \E message \in Carried :
                        /\ message.type = "ops" /\ message.clientId = c
                        /\ \A d \in Clients, other \in Carried :
                              StartedFor(d, other) =
                                  IF other = message /\ d \in Receivers(c) THEN 1 ELSE 0
        /\ ~connected[c] /\ connected'[c] =>
              /\ messageQueue'[c] = <<>>
              /\ \A d \in Clients, message \in Carried \cup Range(messageQueue[c]) :
                    StartedFor(d, message) =
                        IF d \in Receivers(c)
                        THEN Cardinality(PlacesIn(messageQueue[c], message))
                        ELSE 0

SameDocument(after, docId) ==
    /\ after.documents[docId] = documents[docId]
    /\ documents[docId] # 0 =>
          after.managers[documents[docId]] = managers[documents[docId]]
    /\ after.files[docId] = files[docId]

\* The started reads and writes of the canonical file of docId.
PendingOf(docId) ==
    {f \in BagToSet(pending) : f.docId = docId /\ f.op \in {"loadState", "writeFile"}}

\* The server once f is no longer pending.
Without(f) == [ServerState EXCEPT !.pending = @ (-) SetToBag({f})]

Staying(c, heap, ops) ==
    LET r == ApplyRemoteOps(content[c], heap, ops)
    IN SelectSeq(Visible(content[c], heap), LAMBDA ch : ~r.heap[ch])

\* The same characters in the order of c's text after applyRemoteOps(ops).
StayingAfter(c, heap, ops) ==
    LET r == ApplyRemoteOps(content[c], heap, ops)
        stay == Range(Staying(c, heap, ops))
    IN SelectSeq(Visible(r.content, r.heap), LAMBDA ch : ch \in stay)

\* What an other editor's handleTextChange would produce if it typed now:
\* the characters it creates and the operations it sends to c.
TypedByOthers(c) ==
    UNION {{Insert(Doc(d), deleted, position, text, "local") :
               position \in 0..TextLength(d), text \in Texts} : d \in Clients \ {c}}

\* C37 (SpecOnline): in every reachable state, for every message on its way
\* to an editor and for every message another editor's typing would send it
\* now, the characters the editor shows and the message does not delete keep
\* their relative order in the text after applyRemoteOps.
VisibleOrderKept ==
    \A c \in Clients :
        /\ \A ops \in Incoming(c) :
              StayingAfter(c, deleted, ops) = Staying(c, deleted, ops)
        /\ \A typed \in TypedByOthers(c) :
              StayingAfter(c, typed.heap, typed.ops) = Staying(c, typed.heap, typed.ops)

\* The part of C37 for the messages that bring no new character.
VisibleOrderKeptWithoutInsert ==
    \A c \in Clients : \A ops \in Incoming(c) :
        ~BringsInsert(content[c], ops) =>
            StayingAfter(c, deleted, ops) = Staying(c, deleted, ops)

(***************************************************************************)
(* The registry and the sessions.                                          *)
(***************************************************************************)

\* The open sessions that have joined a document.
Joined == {s \in OpenSessions : sockets[s].currentDoc # ""}

\* s is attached to the record the registry holds for the document it joined.
InRegisteredRecord(s) ==
    LET docId == sockets[s].currentDoc
    IN documents[docId] # 0 /\ s \in managers[documents[docId]].clients

\* The DELETE requests that have removed the files and are about to call
\* doc.cleanup() on the record they looked up at their start.
DeletesEnding == {f \in BagToSet(pending) : f.op = "removeSnapshots"}

\* Every open session that has joined a document is attached to the record
\* the registry holds for it.
JoinedAreAttached == \A s \in Joined : InRegisteredRecord(s)

\* C38 (AdminSpec): in every reachable state every open session that has
\* joined a document is attached to the record the registry holds for that
\* document, a well-formed update it sends is merged into that record, and
\* the cleanup of a record leaves a different record registered under the
\* same docId in the registry.
RegistryConsistency ==
    /\ JoinedAreAttached
    /\ \A s \in Joined : \A update \in UpdatesOf(s) :
          LET docId == sockets[s].currentDoc
              after == HandleUpdate(ServerState, s, docId, update)
          IN update.valid =>
                /\ after.documents[docId] # 0
                /\ update.items \subseteq after.managers[after.documents[docId]].doc
    /\ \A f \in DeletesEnding :
          documents[f.docId] \notin {0, f.m} =>
              Completed(Without(f), f).documents[f.docId] = documents[f.docId]

\* The part of C38 that holds while no DELETE request is in progress or has
\* cleaned up since the session joined.
AttachedUnlessDeleted ==
    \A s \in Joined :
        (\A f \in BagToSet(pending) : f.op \notin {"remove", "removeSnapshots"})
            /\ sockets[s].currentDoc \notin responded
            => InRegisteredRecord(s)

(***************************************************************************)
(* The sync message of a join and the updates that follow it.              *)
(***************************************************************************)

\* s is open and attached to record m, the one registered for its document.
OpenMemberOf(socks, docs, mgrs, s, m) ==
    /\ socks[s].readyState = "OPEN"
    /\ socks[s].currentDoc # ""
    /\ docs[socks[s].currentDoc] = m
    /\ m \in 1..Len(mgrs)
    /\ s \in mgrs[m].clients

\* The operations the messages of the given type sent to s by the step carry.
CarriedTo(s, type) ==
    UNION {message.update : message \in {n \in Range(sent'[s]) : n.type = type}}

\* What one step of the server sends to the sessions attached after it.
NoGapAfterJoinStep ==
    \A s \in Sessions : \A m \in 1..Len(managers') :
        OpenMemberOf(sockets', documents', managers', s, m) =>
            IF OpenMemberOf(sockets, documents, managers, s, m)
            THEN requests' # requests =>
                    {op \in managers'[m].doc \ managers[m].doc : op[1] # s}
                        \subseteq CarriedTo(s, "update")
            ELSE managers'[m].doc \subseteq CarriedTo(s, "sync")

\* C39 (ServerSpec): on every step, a session the step attaches to a record
\* is sent a sync message with the whole canonical state of that record, and
\* a session that is and stays open and attached to a record is sent, in
\* update messages, every operation the step merges into that record from
\* the update of another session.
NoGapAfterJoin == [][NoGapAfterJoinStep]_vars

\* s, attached to d1 together with t, has just been sent t's operation in an
\* update message.
NoGapAfterJoinWitness ==
    /\ {"s", "t"} \subseteq Members("d1")
    /\ \E k \in 1..Len(sent["s"]) :
          sent["s"][k].type = "update" /\ sent["s"][k].update = {<<"t", 1>>}
    /\ <<"t", 1>> \in managers[documents["d1"]].doc

(***************************************************************************)
(* What the canonical file keeps.                                          *)
(***************************************************************************)

\* The canonical file of docId holds after the step every operation it held
\* before.
FileKeeps(docId) ==
    files[docId].exists =>
        files'[docId].exists /\ files[docId].data \subseteq files'[docId].data

\* Every canonical file keeps its operations in the step.
PersistedStateKeptStep == \A docId \in DocIds : FileKeeps(docId)

\* C40 (ServerSpec): no step, and so no completing write, takes an operation
\* out of the canonical file of a document: what one completed write has put
\* there is there after every later completed write.
PersistedStateKept == [][PersistedStateKeptStep]_vars

\* The same for the steps in which no older write of the file is pending:
\* the writes complete in the order in which they were started.
KeptInOrder ==
    [][\A docId \in DocIds :
          (\A f \in BagToSet(pending) :
               f.docId = docId /\ f.op = "writeFile" => f.data = lastWrite[docId].data)
          => FileKeeps(docId)]_vars

====
